---- MODULE Spec2Model ----
(***************************************************************************)
(* A model of the luogu-mcp worker: the router of index.js, the JSON-RPC   *)
(* dispatcher of src/mcp-client.js (handleMcpRequest and its handlers,     *)
(* with the shared module variable sessionId), the transport wrapper of    *)
(* src/fetcher.js and the extractor of parser.js; and, as a second         *)
(* specification, the get_problem callback of the SDK server (mcp.js) with *)
(* its formatProblemText; and, as a third, cleanString of src/utils.js     *)
(* applied to a string and to its own result.                              *)
(*                                                                         *)
(* JavaScript values are tagged records: [t |-> "undefined"],              *)
(* [t |-> "null"], [t |-> "number", v |-> n], [t |-> "boolean", v |-> b],  *)
(* [t |-> "string", v |-> s], [t |-> "array", v |-> <<...>>] and           *)
(* [t |-> "object", ...keys].  A string s is a sequence of characters; a   *)
(* character is a one-character TLA+ string, or an opaque token that       *)
(* stands for a run of characters none of the program's patterns look      *)
(* into (a message literal, a CJK label written in pinyin, the text of an  *)
(* embedded JSON payload).                                                 *)
(***************************************************************************)
EXTENDS Integers, Sequences, FiniteSets, Bags, TLC

VARIABLES
    sessionId,      \* mcp-client.js:14, the module-level session identifier
    awaitingJson,   \* how many invocations of handleMcpRequest await request.json()
    awaitingFetch,  \* the bag of invocations that await fetchProblemPage(url)
    awaitingRest,   \* the bag of REST requests that await fetchProblemPage(url)
    last,           \* the invocation that completed most recently
    initSeen,       \* history: some initialize request was dispatched already
    run,            \* the get_problem callback of the SDK server: where its call stands
    earlier         \* history: the set of calls of that callback that ended before

workerVars == <<sessionId, awaitingJson, awaitingFetch, awaitingRest, last, initSeen>>
vars == <<sessionId, awaitingJson, awaitingFetch, awaitingRest, last, initSeen, run, earlier>>

\* The number of invocations of handleMcpRequest that may be in flight at once.
MaxInFlight == 2

\* The number of different calls of the get_problem callback, the one at hand
\* included, that the history tells apart.
MaxRuns == 3

---------------------------------------------------------------------------
(* JavaScript values *)

Undefined == [t |-> "undefined"]
Null == [t |-> "null"]
Num(n) == [t |-> "number", v |-> n]
Bool(b) == [t |-> "boolean", v |-> b]
Str(s) == [t |-> "string", v |-> s]
Arr(s) == [t |-> "array", v |-> s]
EmptyObject == [t |-> "object"]

\* o.k (undefined when o has no such key or is a primitive)
Prop(o, k) == IF o.t = "object" /\ k \in DOMAIN o THEN o[k] ELSE Undefined

\* o?.k can be evaluated for every o; o.k throws for undefined and null
IsNullish(x) == x.t \in {"undefined", "null"}

\* ToBoolean
Truthy(x) ==
    CASE x.t \in {"undefined", "null"} -> FALSE
      [] x.t = "number" -> x.v # 0
      [] x.t = "string" -> x.v # <<>>
      [] x.t = "boolean" -> x.v
      [] OTHER -> TRUE

\* typeof x
TypeOf(x) ==
    CASE x.t = "undefined" -> "undefined"
      [] x.t = "number" -> "number"
      [] x.t = "string" -> "string"
      [] x.t = "boolean" -> "boolean"
      [] OTHER -> "object"

DigitSeq == <<"0", "1", "2", "3", "4", "5", "6", "7", "8", "9">>

\* the decimal digits of an integer, one character each
RECURSIVE NaturalText(_)
NaturalText(n) ==
    IF n < 10 THEN <<DigitSeq[n + 1]>>
    ELSE NaturalText(n \div 10) \o <<DigitSeq[(n % 10) + 1]>>

NumberText(n) == IF n < 0 THEN <<"-">> \o NaturalText(-n) ELSE NaturalText(n)

\* String(x), as a template literal `${x}` and x.toString() render it; an
\* array joins its elements with ",", null and undefined elements as ''
RECURSIVE ToText(_)
ToText(x) ==
    CASE x.t = "string" -> x.v
      [] x.t = "number" -> NumberText(x.v)
      [] x.t = "boolean" -> IF x.v THEN <<"true">> ELSE <<"false">>
      [] x.t = "undefined" -> <<"undefined">>
      [] x.t = "null" -> <<"null">>
      [] x.t = "array" ->
            LET J[i \in 0..Len(x.v)] ==
                    IF i = 0 THEN <<>>
                    ELSE J[i - 1] \o (IF i > 1 THEN <<",">> ELSE <<>>)
                         \o (IF IsNullish(x.v[i]) THEN <<>> ELSE ToText(x.v[i]))
            IN  J[Len(x.v)]
      [] OTHER -> <<"[object Object]">>

Upper == {"A", "B", "C", "D", "E", "F", "G", "H", "I", "J", "K", "L", "M",
          "N", "O", "P", "Q", "R", "S", "T", "U", "V", "W", "X", "Y", "Z"}
Lower == {"a", "b", "c", "d", "e", "f", "g", "h", "i", "j", "k", "l", "m",
          "n", "o", "p", "q", "r", "s", "t", "u", "v", "w", "x", "y", "z"}
Digit == {"0", "1", "2", "3", "4", "5", "6", "7", "8", "9"}

\* a result of a call that may throw
Return(v) == [thrown |-> FALSE, value |-> v]
Throw(msg) == [thrown |-> TRUE, message |-> msg]

---------------------------------------------------------------------------
(* src/mcp-client.js: responses *)

MCP_PROTOCOL_VERSION == <<"2024-11-05">>

\* new Response(null, {status})
EmptyResponse(status) == [kind |-> "response", status |-> status, body |-> Null]

\* the error sent as HTTP 415
createErrorResponse_415(code, message, id) ==
    [kind |-> "response", status |-> 415,
     body |-> [jsonrpc |-> "2.0",
               id |-> IF id = Undefined THEN Null ELSE id,
               error |-> [code |-> code, message |-> message]]]

\* the error without the default parameter: an id that is undefined is left out
createErrorResponse_noDefault(code, message, id) ==
    [kind |-> "response", status |-> 200,
     body |-> IF id = Undefined
              THEN [jsonrpc |-> "2.0", error |-> [code |-> code, message |-> message]]
              ELSE [jsonrpc |-> "2.0", id |-> id,
                    error |-> [code |-> code, message |-> message]]]

\* JSON.stringify leaves out a key whose value is undefined; the default
\* parameter id = null applies when the argument is undefined.
createErrorResponse(code, message, id) ==
    [kind |-> "response", status |-> 200,
     body |-> [jsonrpc |-> "2.0",
               id |-> IF id = Undefined THEN Null ELSE id,
               error |-> [code |-> code, message |-> message]]]

createJsonRpcResponse(id, result) ==
    [kind |-> "response", status |-> 200,
     body |-> IF id = Undefined
              THEN [jsonrpc |-> "2.0", result |-> result]
              ELSE [jsonrpc |-> "2.0", id |-> id, result |-> result]]

\* the promise handleMcpRequest returned is rejected: no Response exists
Rejected(message) == [kind |-> "rejected", message |-> message]

ToolResult(isError, text) ==
    [isError |-> isError, content |-> <<[type |-> "text", text |-> text]>>]

\* the check without the protocol tag
isValidJsonRpcRequest_anyVersion(request) ==
    /\ Truthy(request)
    /\ TypeOf(Prop(request, "method")) = "string"
    /\ \/ Prop(request, "id") = Undefined
       \/ Prop(request, "id") = Null
       \/ TypeOf(Prop(request, "id")) = "string"
       \/ TypeOf(Prop(request, "id")) = "number"

isValidJsonRpcRequest(request) ==
    /\ Truthy(request)
    /\ Prop(request, "jsonrpc") = Str(<<"2.0">>)
    /\ TypeOf(Prop(request, "method")) = "string"
    /\ \/ Prop(request, "id") = Undefined
       \/ Prop(request, "id") = Null
       \/ TypeOf(Prop(request, "id")) = "string"
       \/ TypeOf(Prop(request, "id")) = "number"

\* what a handler hands back to the event loop: a finished response, or an
\* await on the transport
Done(resp, session) == [next |-> "done", resp |-> resp, session |-> session]
AwaitFetch(id, problemId, url, session) ==
    [next |-> "fetch", id |-> id, problemId |-> problemId, url |-> url,
     session |-> session]

\* the session created ahead of the version check
handleInitialize_writesFirst(id, params, session, sid) ==
    LET offered == IF IsNullish(params) THEN Undefined
                   ELSE Prop(params, "protocolVersion")
        clientVersion == IF Truthy(offered) THEN offered ELSE Str(<<"1.0">>)
    IN  IF clientVersion # Str(MCP_PROTOCOL_VERSION) /\ clientVersion # Str(<<"1.0">>)
        THEN Done(createErrorResponse(-32600,
                      <<"Protocol version mismatch: Server supports ">>
                        \o MCP_PROTOCOL_VERSION \o <<", client requested ">>
                        \o ToText(clientVersion), id),
                  sid)
        ELSE Done(createJsonRpcResponse(id,
                      [protocolVersion |-> MCP_PROTOCOL_VERSION,
                       serverInfo |-> [name |-> <<"Luogu MCP Server">>,
                                       version |-> <<"1.0.0">>],
                       capabilities |-> [tools |-> [listChanged |-> FALSE]]]),
                  sid)

\* sid is the value generateSessionId() draws
handleInitialize(id, params, session, sid) ==
    LET offered == IF IsNullish(params) THEN Undefined
                   ELSE Prop(params, "protocolVersion")
        clientVersion == IF Truthy(offered) THEN offered ELSE Str(<<"1.0">>)
    IN  IF clientVersion # Str(MCP_PROTOCOL_VERSION) /\ clientVersion # Str(<<"1.0">>)
        THEN Done(createErrorResponse(-32600,
                      <<"Protocol version mismatch: Server supports ">>
                        \o MCP_PROTOCOL_VERSION \o <<", client requested ">>
                        \o ToText(clientVersion), id),
                  session)
        ELSE Done(createJsonRpcResponse(id,
                      [protocolVersion |-> MCP_PROTOCOL_VERSION,
                       serverInfo |-> [name |-> <<"Luogu MCP Server">>,
                                       version |-> <<"1.0.0">>],
                       capabilities |-> [tools |-> [listChanged |-> FALSE]]]),
                  sid)

ToolDescriptors ==
    << [name |-> <<"get_problem">>,
        inputSchema |-> [type |-> "object",
                         properties |-> {"problem_id"},
                         required |-> <<"problem_id">>],
        annotations |-> [readOnlyHint |-> TRUE, openWorldHint |-> TRUE]],
       [name |-> <<"search_problems">>,
        inputSchema |-> [type |-> "object",
                         properties |-> {"keyword", "max_results"},
                         required |-> <<"keyword">>],
        annotations |-> [readOnlyHint |-> TRUE, openWorldHint |-> TRUE]] >>

handleToolsList(id) == createJsonRpcResponse(id, [tools |-> ToolDescriptors])

\* /^[A-Z][0-9]+$/
MatchesLegacyId(s) ==
    /\ Len(s) >= 2
    /\ s[1] \in Upper
    /\ \A i \in 2..Len(s) : s[i] \in Digit

ProblemUrl(id) == <<"https://www.luogu.com.cn/problem/">> \o id

\* the handler without the test of the format
handleGetProblemTool_unvalidated(args) ==
    LET given == IF IsNullish(args) THEN Undefined ELSE Prop(args, "problem_id")
    IN  IF ~Truthy(given)
        THEN [step |-> "return",
              value |-> ToolResult(TRUE, <<"Missing required parameter: problem_id">>)]
        ELSE IF TypeOf(given) # "string"
        THEN [step |-> "throw", message |-> <<"problemId.match is not a function">>]
        ELSE [step |-> "await", problemId |-> given.v, url |-> ProblemUrl(given.v)]

\* handleGetProblemTool up to its await: a result, a TypeError, or the fetch
handleGetProblemTool(args) ==
    LET given == IF IsNullish(args) THEN Undefined ELSE Prop(args, "problem_id")
    IN  IF ~Truthy(given)
        THEN [step |-> "return",
              value |-> ToolResult(TRUE, <<"Missing required parameter: problem_id">>)]
        ELSE IF TypeOf(given) # "string"
        THEN [step |-> "throw", message |-> <<"problemId.match is not a function">>]
        ELSE IF ~MatchesLegacyId(given.v)
        THEN [step |-> "return",
              value |-> ToolResult(TRUE, <<"Invalid problem ID format: ">> \o given.v
                                           \o <<". Expected format like P1001.">>)]
        ELSE [step |-> "await", problemId |-> given.v, url |-> ProblemUrl(given.v)]

handleSearchProblemsTool(args) ==
    LET keyword == IF IsNullish(args) THEN Undefined ELSE Prop(args, "keyword")
    IN  IF ~Truthy(keyword)
        THEN ToolResult(TRUE, <<"Missing required parameter: keyword">>)
        ELSE ToolResult(FALSE, <<"sousuo guanjianci \"">> \o ToText(keyword)
                                 \o <<"\" de jieguo (moni shuju)">>)

ToolFault(name, message) ==
    ToolResult(TRUE, <<"Error executing tool ">> \o ToText(name) \o <<": ">> \o message)

handleToolsCall(id, params, session) ==
    IF IsNullish(params)
    THEN Done(Rejected(<<"TypeError: Cannot destructure property 'name'">>), session)
    ELSE
    LET name == Prop(params, "name")
        args == Prop(params, "arguments")
    IN  IF ~Truthy(name)
        THEN Done(createErrorResponse(-32602, <<"Invalid params: missing tool name">>, id),
                  session)
        ELSE IF name = Str(<<"get_problem">>)
        THEN LET r == handleGetProblemTool(args)
             IN  CASE r.step = "return" -> Done(createJsonRpcResponse(id, r.value), session)
                   [] r.step = "throw" ->
                        Done(createJsonRpcResponse(id, ToolFault(name, r.message)), session)
                   [] r.step = "await" -> AwaitFetch(id, r.problemId, r.url, session)
        ELSE IF name = Str(<<"search_problems">>)
        THEN Done(createJsonRpcResponse(id, handleSearchProblemsTool(args)), session)
        ELSE Done(createErrorResponse(-32601, <<"Tool not found: ">> \o ToText(name), id),
                  session)

\* handleMcpRequest from the point where request.json() settled
handleMcpRequest(parsed, session, sid) ==
    IF parsed.thrown
    THEN Done(createErrorResponse(-32700, <<"Parse error: Invalid JSON">>, Undefined),
              session)
    ELSE IF ~isValidJsonRpcRequest(parsed.value)
    THEN Done(createErrorResponse(-32600,
                  <<"Invalid Request: Not a valid JSON-RPC 2.0 request">>, Undefined),
              session)
    ELSE
    LET id == Prop(parsed.value, "id")
        method == Prop(parsed.value, "method")
        params == Prop(parsed.value, "params")
    IN  IF method = Str(<<"initialize">>)
        THEN handleInitialize(id, params, session, sid)
        ELSE IF ~Truthy(session)
        THEN Done(createErrorResponse(-32600, <<"Server not initialized">>, id), session)
        ELSE IF method = Str(<<"initialized">>)
        THEN Done(EmptyResponse(204), session)
        ELSE IF method = Str(<<"tools/list">>)
        THEN Done(handleToolsList(id), session)
        ELSE IF method = Str(<<"tools/call">>)
        THEN handleToolsCall(id, params, session)
        ELSE IF method = Str(<<"ping">>)
        THEN Done(createJsonRpcResponse(id, EmptyObject), session)
        ELSE Done(createErrorResponse(-32601, <<"Method not found: ">> \o method.v, id),
                  session)

---------------------------------------------------------------------------
(* src/utils.js: cleanString *)

Letters == Upper \cup Lower
HSpace == {" ", "\t"}
LineTerminator == {"\n", "\r"}
WhiteSpace == {" ", "\t", "\n", "\r", "\f"}

\* the elements of s at the indices in K, in order
RECURSIVE KeepIndices(_, _, _)
KeepIndices(s, K, i) ==
    IF i > Len(s) THEN <<>>
    ELSE IF i \in K THEN <<s[i]>> \o KeepIndices(s, K, i + 1)
    ELSE KeepIndices(s, K, i + 1)

\* the least index k >= i with s[k] \in set, or Len(s) + 1
RECURSIVE IndexOfAny(_, _, _)
IndexOfAny(s, set, i) ==
    IF i > Len(s) THEN Len(s) + 1
    ELSE IF s[i] \in set THEN i
    ELSE IndexOfAny(s, set, i + 1)

\* the replace with /<[^>]*>?/g, where any character may follow the "<"
RECURSIVE StripTags_anyOpen(_, _)
StripTags_anyOpen(s, i) ==
    IF i > Len(s) THEN <<>>
    ELSE IF s[i] = "<"
    THEN StripTags_anyOpen(s, IndexOfAny(s, {">"}, i + 1) + 1)
    ELSE <<s[i]>> \o StripTags_anyOpen(s, i + 1)

\* str.replace(/<[A-Za-z/!][^>]*>?/g, '') from index i on
RECURSIVE StripTags(_, _)
StripTags(s, i) ==
    IF i > Len(s) THEN <<>>
    ELSE IF s[i] = "<" /\ i < Len(s) /\ s[i + 1] \in Letters \cup {"/", "!"}
    THEN StripTags(s, IndexOfAny(s, {">"}, i + 2) + 1)
    ELSE <<s[i]>> \o StripTags(s, i + 1)

\* .replace(/[ \t]+/g, ' ')
CollapseSpaces(s) ==
    LET one == [i \in DOMAIN s |-> IF s[i] \in HSpace THEN " " ELSE s[i]]
        keep(i) == ~(s[i] \in HSpace /\ i > 1 /\ s[i - 1] \in HSpace)
    IN  KeepIndices(one, {i \in DOMAIN s : keep(i)}, 1)

\* .replace(/^ +| +$/gm, ''): a run of spaces goes when it starts a line or
\* ends one
TrimLines(s) ==
    LET runStart(i) == CHOOSE a \in 1..i :
                          /\ \A k \in a..i : s[k] = " "
                          /\ (a = 1 \/ s[a - 1] # " ")
        runEnd(i) == CHOOSE b \in i..Len(s) :
                          /\ \A k \in i..b : s[k] = " "
                          /\ (b = Len(s) \/ s[b + 1] # " ")
        atLineStart(a) == a = 1 \/ s[a - 1] \in LineTerminator
        atLineEnd(b) == b = Len(s) \/ s[b + 1] \in LineTerminator
        keep(i) == ~(s[i] = " " /\ (atLineStart(runStart(i)) \/ atLineEnd(runEnd(i))))
    IN  KeepIndices(s, {i \in DOMAIN s : keep(i)}, 1)

\* the replace with /\n+/g and '\n', which leaves no empty line
CollapseNewlines_single(s) ==
    LET keep(i) == ~(s[i] = "\n" /\ i > 1 /\ s[i - 1] = "\n")
    IN  KeepIndices(s, {i \in DOMAIN s : keep(i)}, 1)

\* .replace(/\n{3,}/g, '\n\n')
CollapseNewlines(s) ==
    LET keep(i) == ~(s[i] = "\n" /\ i > 2 /\ s[i - 1] = "\n" /\ s[i - 2] = "\n")
    IN  KeepIndices(s, {i \in DOMAIN s : keep(i)}, 1)

\* .trim()
Trim(s) ==
    LET inner == {i \in DOMAIN s : s[i] \notin WhiteSpace}
        keep(i) == \E a \in inner, b \in inner : a <= i /\ i <= b
    IN  KeepIndices(s, {i \in DOMAIN s : keep(i)}, 1)

\* cleanString(str) for a JavaScript value: a falsy one gives '', and a truthy
\* one that is no string has no replace method
cleanString(str) ==
    IF ~Truthy(str) THEN Return(<<>>)
    ELSE IF TypeOf(str) # "string"
    THEN Throw(<<"TypeError: str.replace is not a function">>)
    ELSE Return(Trim(CollapseNewlines(TrimLines(CollapseSpaces(StripTags(str.v, 1))))))

---------------------------------------------------------------------------
(* parser.js: patterns.  Every pattern of the extractor carries the i flag. *)

UpperSeq == <<"A", "B", "C", "D", "E", "F", "G", "H", "I", "J", "K", "L", "M",
              "N", "O", "P", "Q", "R", "S", "T", "U", "V", "W", "X", "Y", "Z">>
LowerSeq == <<"a", "b", "c", "d", "e", "f", "g", "h", "i", "j", "k", "l", "m",
              "n", "o", "p", "q", "r", "s", "t", "u", "v", "w", "x", "y", "z">>
ToLower(c) ==
    IF c \in Upper THEN LowerSeq[CHOOSE i \in 1..26 : UpperSeq[i] = c] ELSE c

Min(S) == CHOOSE x \in S : \A y \in S : x <= y

\* the literal lit stands at index i of s, letter case ignored
MatchAt(s, i, lit) ==
    /\ i >= 1
    /\ i + Len(lit) - 1 <= Len(s)
    /\ \A k \in 1..Len(lit) : ToLower(s[i + k - 1]) = ToLower(lit[k])

\* the least index k >= i where lit stands, or 0
Find(s, lit, i) ==
    LET hits == {k \in i..Len(s) : MatchAt(s, k, lit)}
    IN  IF hits = {} THEN 0 ELSE Min(hits)

ScriptOpen == <<"<", "s", "c", "r", "i", "p", "t", " ", "i", "d", "=", "\"", "l", "e", "n", "t", "i", "l", "l", "e", "-", "c", "o", "n", "t", "e", "x", "t", "\"", " ", "t", "y", "p", "e", "=", "\"", "a", "p", "p", "l", "i", "c", "a", "t", "i", "o", "n", "/", "j", "s", "o", "n", "\"", ">">>
ScriptClose == <<"<", "/", "s", "c", "r", "i", "p", "t", ">">>
H1Open == <<"<", "h", "1">>
H1Close == <<"<", "/", "h", "1", ">">>
H2Open == <<"<", "h", "2">>
H2Close == <<"<", "/", "h", "2", ">">>

\* the CJK labels of the headings and the sentinels, as opaque tokens
LabelDescription == <<"TiMuMiaoShu">>
LabelInputFormat == <<"ShuRuGeShi">>
LabelOutputFormat == <<"ShuChuGeShi">>
LabelHint == <<"ShuoMing", "/", "TiShi">>
LabelSampleInput == <<"ShuRuYangLi", " ">>
LabelSampleOutput == <<"ShuChuYangLi", " ">>
UnknownTitle == <<"WeiZhiBiaoTi">>
NoDescription == <<"WuTiMuMiaoShu">>
NoInputFormat == <<"WuShuRuGeShi">>
NoOutputFormat == <<"WuShuChuGeShi">>
NoLimit == <<"WuShuJuFanWeiShuoMing">>
UnknownDifficulty == <<"WeiZhiNanDu">>

NoMatch == [matched |-> FALSE]

\* html.match(/<script id="lentille-context" type="application\/json">([\s\S]*?)<\/script>/i)
scriptTagRegex(html) ==
    LET i == Find(html, ScriptOpen, 1)
        j == IF i = 0 THEN 0 ELSE Find(html, ScriptClose, i + Len(ScriptOpen))
    IN  IF j = 0 THEN NoMatch
        ELSE [matched |-> TRUE, g1 |-> SubSeq(html, i + Len(ScriptOpen), j - 1)]

\* <hN[^>]*>label</hN> standing at index i: the index after it, or 0
HeadingEnd(s, i, open, label, close) ==
    IF ~MatchAt(s, i, open) THEN 0
    ELSE LET j == IndexOfAny(s, {">"}, i + Len(open))
         IN  IF j <= Len(s) /\ MatchAt(s, j + 1, label \o close)
             THEN j + 1 + Len(label) + Len(close)
             ELSE 0

\* html.match(/<h1[^>]*>([^<]+)<\/h1>/i)
titleRegex(html) ==
    LET end(i) == IF MatchAt(html, i, H1Open)
                  THEN IndexOfAny(html, {">"}, i + Len(H1Open)) ELSE Len(html) + 1
        stop(i) == IndexOfAny(html, {"<"}, end(i) + 1)
        hits == {i \in 1..Len(html) :
                    /\ end(i) <= Len(html)
                    /\ stop(i) > end(i) + 1
                    /\ MatchAt(html, stop(i), H1Close)}
    IN  IF hits = {} THEN NoMatch
        ELSE [matched |-> TRUE,
              g1 |-> SubSeq(html, end(Min(hits)) + 1, stop(Min(hits)) - 1)]

\* html.match(/<h2[^>]*>label<\/h2>([\s\S]*?)<h2/i), and with toEnd the
\* pattern that ends in (?:<h2|$)
sectionRegex(html, label, toEnd) ==
    LET e(i) == HeadingEnd(html, i, H2Open, label, H2Close)
        k(i) == Find(html, H2Open, e(i))
        hits == {i \in 1..Len(html) : e(i) # 0 /\ (toEnd \/ k(i) # 0)}
    IN  IF hits = {} THEN NoMatch
        ELSE LET i == Min(hits)
             IN  [matched |-> TRUE,
                  g1 |-> SubSeq(html, e(i), IF k(i) # 0 THEN k(i) - 1 ELSE Len(html))]

\* the run of digits from index i on
RECURSIVE DigitRun(_, _)
DigitRun(s, i) ==
    IF i <= Len(s) /\ s[i] \in Digit THEN <<s[i]>> \o DigitRun(s, i + 1) ELSE <<>>

\* sampleRegex.exec(html) with lastIndex = from - 1:
\* /<h2[^>]*>label (\d+)<\/h2>([\s\S]*?)<h2[^>]*>label \1<\/h2>([\s\S]*?)(?:<h2|$)/gi
sampleRegex(html, from) ==
    LET gt(i) == IndexOfAny(html, {">"}, i + Len(H2Open))
        n(i) == DigitRun(html, gt(i) + 1 + Len(LabelSampleInput))
        e1(i) == IF /\ MatchAt(html, i, H2Open)
                    /\ gt(i) <= Len(html)
                    /\ MatchAt(html, gt(i) + 1, LabelSampleInput)
                    /\ n(i) # <<>>
                    /\ MatchAt(html, gt(i) + 1 + Len(LabelSampleInput) + Len(n(i)), H2Close)
                 THEN gt(i) + 1 + Len(LabelSampleInput) + Len(n(i)) + Len(H2Close)
                 ELSE 0
        outs(i) == {q \in e1(i)..Len(html) :
                       HeadingEnd(html, q, H2Open, LabelSampleOutput \o n(i), H2Close) # 0}
        hits == {i \in from..Len(html) : e1(i) # 0 /\ outs(i) # {}}
    IN  IF hits = {} THEN NoMatch
        ELSE LET i == Min(hits)
                 q == Min(outs(i))
                 e2 == HeadingEnd(html, q, H2Open, LabelSampleOutput \o n(i), H2Close)
                 k == Find(html, H2Open, e2)
             IN  [matched |-> TRUE,
                  g2 |-> SubSeq(html, e1(i), q - 1),
                  g3 |-> SubSeq(html, e2, IF k # 0 THEN k - 1 ELSE Len(html)),
                  lastIndex |-> IF k # 0 THEN k + Len(H2Open) ELSE Len(html) + 1]

---------------------------------------------------------------------------
(* parser.js: the embedded payload.  JSON.parse is the runtime's: it is     *)
(* given here for the payload texts the documents below embed (each text   *)
(* one token), for the literal null and for a run of digits; every other   *)
(* text is a SyntaxError.                                                  *)

\* the text of each embedded payload, as one token
PayloadTexts ==
    << "{\"data\":{\"problem\":{\"title\":\"A+B Problem\",\"difficulty\":1,\"tags\":[\"1\",\"2\"],\"content\":{\"description\":\"add a and b\",\"formatI\":\"two ints\",\"formatO\":\"one int\"},\"samples\":[[\"1 2\",\"3\"]]}}}",
       "{\"data\":{\"problem\":{\"title\":\"T\",\"difficulty\":99,\"tags\":[2,777,\"9x\"],\"content\":{\"hint\":\"n = 5\"},\"samples\":[]}}}",
       "{\"data\":{\"problem\":{\"tags\":[null]}}}",
       "{\"data\":{\"problem\":{\"samples\":[null]}}}",
       "{\"data\":{\"problem\":{\"title\":5}}}",
       "{\"data\":{\"problem\":{\"difficulty\":null,\"samples\":[[1,2]]}}}",
       "{\"data\":{}}",
       "{\"data\":{\"problem\":{\"difficulty\":7,\"tags\":\"1\",\"samples\":\"ab\",\"content\":\"x\"}}}",
       "{\"data\":{\"problem\":{\"title\":\"D\",\"difficulty\":\"constructor\"}}}",
       "{\"data\":{\"problem\":{\"title\":\"G\",\"difficulty\":2,\"tags\":[\"2x\",\"3\",\"1\"]}}}",
       "{\"data\":{\"problem\":{\"title\":\"S\",\"difficulty\":3,\"samples\":[[\"1 2\",\"3\"],[\"<b>4</b>  5\",\"6\\n\"]]}}}",
       "{\"data\":{\"problem\":{\"title\":\"\",\"difficulty\":4}}}",
       "{\"data\":{\"problem\":{\"title\":\" \",\"difficulty\":5,\"tags\":[]}}}",
       "{\"data\":{\"problem\":{\"difficulty\":6,\"content\":{\"description\":\"<p>\"}}}}",
       "{\"data\":{\"problem\":{\"title\":\"E\",\"difficulty\":1,\"content\":{\"formatI\":\" \",\"formatO\":\"<i>\",\"hint\":\"<br>\"}}}}",
       "{\"data\":{\"problem\":{\"title\":\"N\",\"difficulty\":null}}}" >>

\* what JSON.parse yields for each of them
PayloadValues ==
    << [t |-> "object", data |-> [t |-> "object", problem |-> [t |-> "object", title |-> Str(<<"A", "+", "B", " ", "P", "r", "o", "b", "l", "e", "m">>), difficulty |-> Num(1), tags |-> Arr(<<Str(<<"1">>), Str(<<"2">>)>>), content |-> [t |-> "object", description |-> Str(<<"a", "d", "d", " ", "a", " ", "a", "n", "d", " ", "b">>), formatI |-> Str(<<"t", "w", "o", " ", "i", "n", "t", "s">>), formatO |-> Str(<<"o", "n", "e", " ", "i", "n", "t">>)], samples |-> Arr(<<Arr(<<Str(<<"1", " ", "2">>), Str(<<"3">>)>>)>>)]]],
       [t |-> "object", data |-> [t |-> "object", problem |-> [t |-> "object", title |-> Str(<<"T">>), difficulty |-> Num(99), tags |-> Arr(<<Num(2), Num(777), Str(<<"9", "x">>)>>), content |-> [t |-> "object", hint |-> Str(<<"n", " ", "=", " ", "5">>)], samples |-> Arr(<<>>)]]],
       [t |-> "object", data |-> [t |-> "object", problem |-> [t |-> "object", tags |-> Arr(<<Null>>)]]],
       [t |-> "object", data |-> [t |-> "object", problem |-> [t |-> "object", samples |-> Arr(<<Null>>)]]],
       [t |-> "object", data |-> [t |-> "object", problem |-> [t |-> "object", title |-> Num(5)]]],
       [t |-> "object", data |-> [t |-> "object", problem |-> [t |-> "object", difficulty |-> Null, samples |-> Arr(<<Arr(<<Num(1), Num(2)>>)>>)]]],
       [t |-> "object", data |-> [t |-> "object"]],
       [t |-> "object", data |-> [t |-> "object", problem |-> [t |-> "object", difficulty |-> Num(7), tags |-> Str(<<"1">>), samples |-> Str(<<"a", "b">>), content |-> Str(<<"x">>)]]],
       [t |-> "object", data |-> [t |-> "object", problem |-> [t |-> "object", title |-> Str(<<"D">>), difficulty |-> Str(<<"c", "o", "n", "s", "t", "r", "u", "c", "t", "o", "r">>)]]],
       [t |-> "object", data |-> [t |-> "object", problem |-> [t |-> "object", title |-> Str(<<"G">>), difficulty |-> Num(2), tags |-> Arr(<<Str(<<"2", "x">>), Str(<<"3">>), Str(<<"1">>)>>)]]],
       [t |-> "object", data |-> [t |-> "object", problem |-> [t |-> "object", title |-> Str(<<"S">>), difficulty |-> Num(3), samples |-> Arr(<<Arr(<<Str(<<"1", " ", "2">>), Str(<<"3">>)>>), Arr(<<Str(<<"<", "b", ">", "4", "<", "/", "b", ">", " ", " ", "5">>), Str(<<"6", "\n">>)>>)>>)]]],
       [t |-> "object", data |-> [t |-> "object", problem |-> [t |-> "object", title |-> Str(<<>>), difficulty |-> Num(4)]]],
       [t |-> "object", data |-> [t |-> "object", problem |-> [t |-> "object", title |-> Str(<<" ">>), difficulty |-> Num(5), tags |-> Arr(<<>>)]]],
       [t |-> "object", data |-> [t |-> "object", problem |-> [t |-> "object", difficulty |-> Num(6), content |-> [t |-> "object", description |-> Str(<<"<", "p", ">">>)]]]],
       [t |-> "object", data |-> [t |-> "object", problem |-> [t |-> "object", title |-> Str(<<"E">>), difficulty |-> Num(1), content |-> [t |-> "object", formatI |-> Str(<<" ">>), formatO |-> Str(<<"<", "i", ">">>), hint |-> Str(<<"<", "b", "r", ">">>)]]]],
       [t |-> "object", data |-> [t |-> "object", problem |-> [t |-> "object", title |-> Str(<<"N">>), difficulty |-> Null]]] >>

PayloadValue(text) == PayloadValues[CHOOSE k \in DOMAIN PayloadTexts : PayloadTexts[k] = text]

RECURSIVE NaturalValue(_)
NaturalValue(ds) ==
    IF ds = <<>> THEN 0
    ELSE 10 * NaturalValue(SubSeq(ds, 1, Len(ds) - 1))
         + (CHOOSE n \in 0..9 : DigitSeq[n + 1] = ds[Len(ds)])

JSONparse(text) ==
    LET core == Trim(text)
    IN  IF Len(core) = 1 /\ (\E k \in DOMAIN PayloadTexts : PayloadTexts[k] = core[1])
        THEN Return(PayloadValue(core[1]))
        ELSE IF core = <<"n", "u", "l", "l">> THEN Return(Null)
        ELSE IF core # <<>> /\ (\A i \in DOMAIN core : core[i] \in Digit)
                /\ (Len(core) = 1 \/ core[1] # "0")
        THEN Return(Num(NaturalValue(core)))
        ELSE Throw(<<"SyntaxError: Unexpected token">>)

\* parseInt(text, 10): leading white space, a sign, then the longest run of
\* digits; NaN when there is no digit
parseInt(text) ==
    LET i == IF \E k \in DOMAIN text : text[k] \notin WhiteSpace
             THEN Min({k \in DOMAIN text : text[k] \notin WhiteSpace}) ELSE Len(text) + 1
        signed == i <= Len(text) /\ text[i] \in {"+", "-"}
        ds == DigitRun(text, IF signed THEN i + 1 ELSE i)
    IN  IF ds = <<>> THEN [nan |-> TRUE]
        ELSE [nan |-> FALSE,
              value |-> IF signed /\ text[i] = "-" THEN -NaturalValue(ds) ELSE NaturalValue(ds)]

---------------------------------------------------------------------------
(* parser.js: mapDifficulty and parseProblemHtml *)

difficultyMap ==
    [k \in {<<"1">>, <<"2">>, <<"3">>, <<"4">>, <<"5">>, <<"6">>, <<"7">>} |->
        CASE k = <<"1">> -> <<"RuMen">>
          [] k = <<"2">> -> <<"PuJi", "-">>
          [] k = <<"3">> -> <<"PuJi", "/", "TiGao", "-">>
          [] k = <<"4">> -> <<"PuJi", "+", "/", "TiGao">>
          [] k = <<"5">> -> <<"TiGao", "+", "/", "ShengXuan", "-">>
          [] k = <<"6">> -> <<"ShengXuan", "/", "N", "O", "I", "-">>
          [] k = <<"7">> -> <<"N", "O", "I", "/", "N", "O", "I", "+", "/", "C", "T", "S", "C">>]

\* difficultyMap is an object literal: a key it does not own is looked up in
\* Object.prototype, whose members are functions
ObjectPrototypeKeys ==
    {<<"c", "o", "n", "s", "t", "r", "u", "c", "t", "o", "r">>,
     <<"t", "o", "S", "t", "r", "i", "n", "g">>,
     <<"v", "a", "l", "u", "e", "O", "f">>}

mapDifficulty(difficultyNum) ==
    LET diffKey == ToText(difficultyNum)
    IN  IF diffKey \in DOMAIN difficultyMap THEN Str(difficultyMap[diffKey])
        ELSE IF diffKey \in ObjectPrototypeKeys
        THEN [t |-> "function",
              name |-> IF diffKey = <<"c", "o", "n", "s", "t", "r", "u", "c", "t", "o", "r">>
                       THEN <<"O", "b", "j", "e", "c", "t">> ELSE diffKey]
        ELSE IF diffKey # <<>> THEN Str(diffKey)
        ELSE Str(UnknownDifficulty)

\* tags.js, createTagMap(): the static table from tag ID to tag name
createTagMap == [id \in {1, 2} |-> IF id = 1 THEN <<"MoNi">> ELSE <<"ShuXue">>]

\* x[i] for i = 0, 1
Index(x, i) ==
    CASE x.t = "array" -> IF i + 1 <= Len(x.v) THEN x.v[i + 1] ELSE Undefined
      [] x.t = "string" -> IF i + 1 <= Len(x.v) THEN Str(<<x.v[i + 1]>>) ELSE Undefined
      [] OTHER -> Undefined

\* the first result of rs that threw, or all their values
Sequenced(rs) ==
    IF \E i \in DOMAIN rs : rs[i].thrown
    THEN Throw(rs[Min({i \in DOMAIN rs : rs[i].thrown})].message)
    ELSE Return([i \in DOMAIN rs |-> rs[i].value])

\* the payload: JSON.parse of the script block's text, null without a block,
\* with an empty block and when the text does not parse
embeddedJson(scriptMatch) ==
    IF scriptMatch.matched /\ scriptMatch.g1 # <<>>
    THEN LET parsed == JSONparse(scriptMatch.g1)
         IN  IF parsed.thrown THEN Null ELSE parsed.value
    ELSE Null

\* jsonData.data.problem where jsonData && jsonData.data && jsonData.data.problem
\* holds, and undefined where it does not
problemOf(jsonData) ==
    IF /\ Truthy(jsonData)
       /\ Truthy(Prop(jsonData, "data"))
       /\ Truthy(Prop(Prop(jsonData, "data"), "problem"))
    THEN Prop(Prop(jsonData, "data"), "problem")
    ELSE Undefined

\* difficultyNum and difficultyText
difficultyOf(problem) ==
    IF Truthy(problem) /\ Prop(problem, "difficulty") # Undefined
    THEN [num |-> Prop(problem, "difficulty"),
          text |-> mapDifficulty(Prop(problem, "difficulty"))]
    ELSE [num |-> Null, text |-> Str(UnknownDifficulty)]

\* tag.toString(), then the name of parseInt(id, 10) in the table
tagName(tag) ==
    IF IsNullish(tag)
    THEN Throw(<<"TypeError: Cannot read properties of null (reading 'toString')">>)
    ELSE Return(LET tagId == parseInt(ToText(tag))
                IN  IF ~tagId.nan /\ tagId.value \in DOMAIN createTagMap
                    THEN createTagMap[tagId.value]
                    ELSE <<"WeiZhiBiaoQian", "(">> \o ToText(tag) \o <<")">>)

tagNamesOf(problem) ==
    IF Truthy(problem) /\ Truthy(Prop(problem, "tags")) /\ Prop(problem, "tags").t = "array"
    THEN Sequenced([i \in DOMAIN Prop(problem, "tags").v |->
                       tagName(Prop(problem, "tags").v[i])])
    ELSE Return(<<>>)

\* the fallback without its sentinel
matchedText_empty(m, sentinel) ==
    IF m.matched THEN cleanString(Str(m.g1)) ELSE Return(<<>>)

\* m ? cleanString(m[1]) : sentinel
matchedText(m, sentinel) ==
    IF m.matched THEN cleanString(Str(m.g1)) ELSE Return(sentinel)

titleOf(html, problem) ==
    IF Truthy(problem) /\ Truthy(Prop(problem, "title"))
    THEN cleanString(Prop(problem, "title"))
    ELSE matchedText(titleRegex(html), UnknownTitle)

\* a field of problem.content, or else the labelled section, or else the sentinel
contentOf(html, problem, key, label, toEnd, sentinel) ==
    IF /\ Truthy(problem)
       /\ Truthy(Prop(problem, "content"))
       /\ Truthy(Prop(Prop(problem, "content"), key))
    THEN cleanString(Prop(Prop(problem, "content"), key))
    ELSE matchedText(sectionRegex(html, label, toEnd), sentinel)

samplePair(input, output) ==
    IF input.thrown THEN input
    ELSE IF output.thrown THEN output
    ELSE Return([input |-> input.value, output |-> output.value])

\* the pair's members the other way round
sampleOf_swapped(sample) ==
    IF IsNullish(sample)
    THEN Throw(<<"TypeError: Cannot read properties of null (reading '0')">>)
    ELSE samplePair(cleanString(Index(sample, 1)), cleanString(Index(sample, 0)))

\* sample => ({input: cleanString(sample[0]), output: cleanString(sample[1])})
sampleOf(sample) ==
    IF IsNullish(sample)
    THEN Throw(<<"TypeError: Cannot read properties of null (reading '0')">>)
    ELSE samplePair(cleanString(Index(sample, 0)), cleanString(Index(sample, 1)))

sampleFound(m) == [input |-> cleanString(Str(m.g2)).value,
                   output |-> cleanString(Str(m.g3)).value]

\* the while loop over sampleRegex.exec(html)
RECURSIVE sampleLoop(_, _)
sampleLoop(html, m) ==
    IF ~m.matched THEN <<>>
    ELSE <<sampleFound(m)>> \o sampleLoop(html, sampleRegex(html, m.lastIndex))

samplesOf(html, problem) ==
    IF /\ Truthy(problem)
       /\ Truthy(Prop(problem, "samples"))
       /\ Prop(problem, "samples").t = "array"
    THEN Sequenced([i \in DOMAIN Prop(problem, "samples").v |->
                       sampleOf(Prop(problem, "samples").v[i])])
    ELSE Return(sampleLoop(html, sampleRegex(html, 1)))

\* the record parseProblemHtml returns, unless a step threw; the steps run in
\* the order tags, title, description, formats, samples, limit
problemRecord(difficulty, tagNames, title, description, inputFormat, outputFormat, samples, limit) ==
    CASE tagNames.thrown -> tagNames
      [] title.thrown -> title
      [] description.thrown -> description
      [] inputFormat.thrown -> inputFormat
      [] outputFormat.thrown -> outputFormat
      [] samples.thrown -> samples
      [] limit.thrown -> limit
      [] OTHER -> Return([title |-> title.value,
                          difficultyNum |-> difficulty.num,
                          difficulty |-> difficulty.text,
                          tags |-> tagNames.value,
                          description |-> description.value,
                          inputFormat |-> inputFormat.value,
                          outputFormat |-> outputFormat.value,
                          samples |-> samples.value,
                          limit |-> limit.value])

extractProblem(html, problem) ==
    problemRecord(difficultyOf(problem),
                  tagNamesOf(problem),
                  titleOf(html, problem),
                  contentOf(html, problem, "description", LabelDescription, FALSE,
                            NoDescription),
                  contentOf(html, problem, "formatI", LabelInputFormat, FALSE, NoInputFormat),
                  contentOf(html, problem, "formatO", LabelOutputFormat, FALSE,
                            NoOutputFormat),
                  samplesOf(html, problem),
                  contentOf(html, problem, "hint", LabelHint, TRUE, NoLimit))

parseProblemHtml(html) ==
    extractProblem(html, problemOf(embeddedJson(scriptTagRegex(html))))

---------------------------------------------------------------------------
(* src/fetcher.js and the documents the transport may deliver *)

Chars_garbage == <<"x", "<", "y", ">", "&", "~">>

Heading1(text) == H1Open \o <<">">> \o text \o H1Close
Heading2(label) == H2Open \o <<">">> \o label \o H2Close

\* a page that embeds the payload text
PayloadDoc(text) == <<"<", "h", "t", "m", "l", ">">> \o ScriptOpen \o <<text>> \o ScriptClose

\* a page with the labelled sections and two sample heading pairs
SectionsDoc ==
    Heading1(<<"S", "u", "m">>)
    \o Heading2(LabelDescription) \o <<"<", "p", ">", "a", " ", "<", " ", "b", "<", "/", "p", ">">>
    \o Heading2(LabelInputFormat) \o <<"n", "\n">>
    \o Heading2(LabelOutputFormat) \o <<" ", "m">>
    \o Heading2(LabelSampleInput \o <<"1">>) \o <<"1", " ", "2">>
    \o Heading2(LabelSampleOutput \o <<"1">>) \o <<"3">>
    \o <<"<", "h", "r", ">">>
    \o Heading2(LabelSampleInput \o <<"2">>) \o <<"4">>
    \o Heading2(LabelSampleOutput \o <<"2">>) \o <<"5">>
    \o Heading2(LabelHint) \o <<"n", " ", "<", "=", " ", "9">>

Docs ==
    << <<>>,
       Chars_garbage,
       PayloadDoc(PayloadTexts[1]),
       PayloadDoc(PayloadTexts[2]) \o SectionsDoc,
       PayloadDoc(PayloadTexts[3]),
       PayloadDoc(PayloadTexts[4]),
       PayloadDoc(PayloadTexts[5]),
       PayloadDoc(PayloadTexts[6]),
       PayloadDoc(PayloadTexts[7]) \o Heading1(<<"T", "2">>),
       PayloadDoc(PayloadTexts[8]),
       <<"<", "h", "t", "m", "l", ">">> \o ScriptOpen
           \o <<"{", "\"", "d", "a", "t", "a", "\"", ":">> \o ScriptClose \o SectionsDoc,
       SectionsDoc,
       PayloadDoc(PayloadTexts[9]),
       PayloadDoc(PayloadTexts[10]),
       PayloadDoc(PayloadTexts[11]) \o SectionsDoc,
       PayloadDoc(PayloadTexts[12]),
       PayloadDoc(PayloadTexts[13]) \o Heading1(<<>>),
       PayloadDoc(PayloadTexts[14]),
       SectionsDoc \o ScriptOpen
           \o <<"{", "\"", "d", "a", "t", "a", "\"", ":">> \o ScriptClose,
       PayloadDoc(PayloadTexts[15]),
       PayloadDoc(PayloadTexts[16]) >>

\* the documents the dispatcher's transport delivers: no payload, the full
\* payload, null in the tag list, a number as title, sections only
ServedDocs == <<1, 3, 5, 7, 12>>

\* what the platform's fetch(url, {headers}) and response.text() do: the
\* promise of fetch rejects, or a response arrives whose body reads or fails
Rejects(message) == [kind |-> "rejected", message |-> message]
Responds(status, statusText, text) ==
    [kind |-> "response", status |-> status, statusText |-> statusText, text |-> text]

Outcomes ==
    << Rejects(<<"Network connection lost.">>),
       Responds(404, <<"Not Found">>, Return(<<>>)),
       Responds(500, <<"Internal Server Error">>, Return(Chars_garbage)),
       Responds(200, <<"OK">>, Throw(<<"Network connection lost.">>)) >>
    \o [d \in DOMAIN ServedDocs |-> Responds(200, <<"OK">>, Return(Docs[ServedDocs[d]]))]

\* fetchProblemPage(url), given what the transport did
fetchProblemPage(url, outcome) ==
    IF outcome.kind = "rejected" THEN Throw(outcome.message)
    ELSE IF ~(outcome.status \in 200..299)
    THEN Throw(<<"QingQiuShiBai", ":", " ">> \o NumberText(outcome.status)
               \o <<" ">> \o outcome.statusText)
    ELSE outcome.text

---------------------------------------------------------------------------
(* src/mcp-client.js: handleGetProblemTool after its await *)

\* the escapes JSON.stringify writes inside a string
EscapeChar(c) ==
    CASE c = "\"" -> <<"\\", "\"">>
      [] c = "\\" -> <<"\\", "\\">>
      [] c = "\n" -> <<"\\", "n">>
      [] c = "\t" -> <<"\\", "t">>
      [] c = "\r" -> <<"\\", "r">>
      [] c = "\f" -> <<"\\", "f">>
      [] OTHER -> <<c>>

RECURSIVE Escape(_)
Escape(s) == IF s = <<>> THEN <<>> ELSE EscapeChar(Head(s)) \o Escape(Tail(s))

Quoted(s) == <<"\"">> \o Escape(s) \o <<"\"">>

RECURSIVE Spaces(_)
Spaces(n) == IF n = 0 THEN <<>> ELSE <<" ">> \o Spaces(n - 1)

\* items, one per line at the given indent, between the brackets
Block(open, items, close, indent) ==
    IF items = <<>> THEN <<open, close>>
    ELSE LET J[i \in 0..Len(items)] ==
                 IF i = 0 THEN <<>>
                 ELSE J[i - 1] \o (IF i > 1 THEN <<",">> ELSE <<>>)
                      \o <<"\n">> \o Spaces(indent + 2) \o items[i]
         IN  <<open>> \o J[Len(items)] \o <<"\n">> \o Spaces(indent) \o <<close>>

\* JSON.stringify(x, null, 2) of a scalar or an array of them, at an indent
RECURSIVE Stringify(_, _)
Stringify(x, indent) ==
    CASE x.t = "string" -> Quoted(x.v)
      [] x.t = "number" -> NumberText(x.v)
      [] x.t = "boolean" -> IF x.v THEN <<"true">> ELSE <<"false">>
      [] x.t = "array" ->
            Block("[", [i \in DOMAIN x.v |->
                           IF x.v[i].t \in {"undefined", "function"} THEN <<"null">>
                           ELSE Stringify(x.v[i], indent + 2)], "]", indent)
      [] OTHER -> <<"null">>

Member(key, text) == <<"\"", key, "\"", ":", " ">> \o text

\* JSON.stringify({id, source: 'luogu', url, ...problemInfo}, null, 2): a key
\* whose value is undefined or a function is left out
stringifyProblem(problemId, url, info) ==
    LET sample(x) == Block("{", <<Member("input", Quoted(x.input)),
                                  Member("output", Quoted(x.output))>>, "}", 4)
    IN  Block("{",
              <<Member("id", Quoted(problemId)),
                Member("source", Quoted(<<"l", "u", "o", "g", "u">>)),
                Member("url", Quoted(url)),
                Member("title", Quoted(info.title)),
                Member("difficultyNum", Stringify(info.difficultyNum, 2))>>
              \o (IF info.difficulty.t = "function" THEN <<>>
                  ELSE <<Member("difficulty", Stringify(info.difficulty, 2))>>)
              \o <<Member("tags", Block("[", [i \in DOMAIN info.tags |-> Quoted(info.tags[i])],
                                        "]", 2)),
                   Member("description", Quoted(info.description)),
                   Member("inputFormat", Quoted(info.inputFormat)),
                   Member("outputFormat", Quoted(info.outputFormat)),
                   Member("samples", Block("[", [i \in DOMAIN info.samples |->
                                                    sample(info.samples[i])], "]", 2)),
                   Member("limit", Quoted(info.limit))>>,
              "}", 0)

\* fetchProblemPage(url) followed by parseProblemHtml(html), for outcome o of
\* the transport (the URL does not change what the transport's outcome yields)
FetchedAndParsed ==
    [o \in DOMAIN Outcomes |->
        LET html == fetchProblemPage(<<>>, Outcomes[o])
        IN  IF html.thrown THEN html ELSE parseProblemHtml(html.value)]

\* the catch block without the fault's message
handleGetProblemToolResume_silent(problemId, url, o) ==
    LET problemInfo == FetchedAndParsed[o]
    IN  IF problemInfo.thrown
        THEN ToolResult(TRUE, <<"Failed to fetch problem ">> \o problemId)
        ELSE ToolResult(FALSE, stringifyProblem(problemId, url, problemInfo.value))

\* the try block of handleGetProblemTool once the transport settled
handleGetProblemToolResume(problemId, url, o) ==
    LET problemInfo == FetchedAndParsed[o]
    IN  IF problemInfo.thrown
        THEN ToolResult(TRUE, <<"Failed to fetch problem ">> \o problemId \o <<": ">>
                                \o problemInfo.message)
        ELSE ToolResult(FALSE, stringifyProblem(problemId, url, problemInfo.value))

---------------------------------------------------------------------------
(* The requests a client may send *)

ContentTypes ==
    {Str(<<"application/json">>), Str(<<"application/json; charset=utf-8">>),
     Str(<<"text/plain">>), Null}

Envelope(id, method, params) ==
    [t |-> "object", jsonrpc |-> Str(<<"2.0">>), id |-> id, method |-> Str(<<method>>),
     params |-> params]

\* an id key that is absent reads as undefined
IdValues == {Undefined, Null, Num(0), Num(7), Str(<<>>)}

InitializeParams(version) == [t |-> "object", protocolVersion |-> version]
CallParams(name, args) == [t |-> "object", name |-> name, arguments |-> args]
ProblemArgs(problem_id) == [t |-> "object", problem_id |-> problem_id]

ProblemIds ==
    {<<"P", "1", "0", "0", "1">>,
     <<"B", "2", "0", "0", "2">>,
     <<"C", "F", "1", "2", "3", "4", "A">>,
     <<"A", "T", "_", "a", "b", "c", "1", "2", "3", "_", "a">>,
     <<"S", "P", "1", "0", "0">>,
     <<"U", "V", "A", "1", "0", "0">>,
     <<"!", "!", "!", "b", "a", "d">>,
     <<>>,
     <<"p", "1", "0", "0", "1">>,
     <<"P">>}

ToolCalls ==
    {Undefined, Num(3),
     CallParams(Undefined, EmptyObject),
     CallParams(Str(<<"does_not_exist">>), EmptyObject),
     CallParams(Str(<<"search_problems">>), EmptyObject),
     CallParams(Str(<<"search_problems">>), [t |-> "object", keyword |-> Str(<<"d", "p">>)]),
     CallParams(Str(<<"get_problem">>), Undefined),
     CallParams(Str(<<"get_problem">>), EmptyObject),
     CallParams(Str(<<"get_problem">>), ProblemArgs(Num(5)))}
    \cup {CallParams(Str(<<"get_problem">>), ProblemArgs(Str(p))) : p \in ProblemIds}

\* the calls that are also sent without an id
NotifiedCalls ==
    {Undefined,
     CallParams(Str(<<"does_not_exist">>), EmptyObject),
     CallParams(Str(<<"get_problem">>), ProblemArgs(Str(<<"P", "1", "0", "0", "1">>)))}

Envelopes ==
    {Envelope(id, "initialize", params) :
        id \in IdValues,
        params \in {Undefined, InitializeParams(Str(<<"2024-11-05">>)),
                    InitializeParams(Str(<<"2025-11-25">>))}}
    \cup {Envelope(id, method, Undefined) :
            id \in IdValues,
            method \in {"initialized", "notifications/initialized", "tools/list", "ping",
                        "unknown/method"}}
    \cup {Envelope(Num(7), "tools/call", params) : params \in ToolCalls}
    \cup {Envelope(Undefined, "tools/call", params) : params \in NotifiedCalls}

\* parsed bodies that are no envelope
Malformed ==
    {Null, Num(5),
     [t |-> "object", jsonrpc |-> Str(<<"1.0">>), id |-> Num(7), method |-> Str(<<"ping">>)],
     [t |-> "object", jsonrpc |-> Str(<<"2.0">>), id |-> Num(7)],
     [t |-> "object", jsonrpc |-> Str(<<"2.0">>), id |-> Num(7), method |-> Num(1)],
     [t |-> "object", jsonrpc |-> Str(<<"2.0">>), id |-> Bool(TRUE), method |-> Str(<<"ping">>)]}

\* what request.json() settles to
JsonBodies ==
    {Throw(<<"SyntaxError: Unexpected token">>)}
    \cup {Return(v) : v \in Envelopes \cup Malformed}

\* the values generateSessionId() may draw
SessionIds == {Str(<<"k3j2h1">>), Str(<<"x9y8z7">>)}

---------------------------------------------------------------------------
(* index.js: the router *)

\* a URL or a path is a sequence of "/" and of pieces that hold no "/"
LuoguProblemLocation(id) ==
    <<"https:", "/", "/", "www.luogu.com.cn", "/", "problem", "/">> \o id

\* utils.js: url.match(/\/problem\/([^\/]+)/), its first group or null
extractProblemId(url) ==
    LET starts == {i \in 1..(Len(url) - 3) :
                      /\ url[i] = "/"
                      /\ url[i + 1] = "problem"
                      /\ url[i + 2] = "/"
                      /\ url[i + 3] # "/"}
    IN  IF starts = {} THEN Null
        ELSE LET i == Min(starts) + 3
             IN  Str(SubSeq(url, i, IndexOfAny(url, {"/"}, i) - 1))

\* path.match(/^\/api\/problem\/([^/]+)$/)
idMatch(path) ==
    IF /\ Len(path) > 5
       /\ SubSeq(path, 1, 5) = <<"/", "api", "/", "problem", "/">>
       /\ \A i \in 6..Len(path) : path[i] # "/"
    THEN [matched |-> TRUE, g1 |-> SubSeq(path, 6, Len(path))]
    ELSE NoMatch

\* new Response(JSON.stringify(data, null, 2), {status, headers})
jsonResponse(data, status) ==
    [kind |-> "response", status |-> status,
     headers |-> [ContentType |-> "application/json"],
     body |-> data]

\* JSON.stringify({error: message}, null, 2)
stringifyError(message) == Block("{", <<Member("error", Quoted(message))>>, "}", 0)

\* JSON.stringify({id, url, ...info}, null, 2)
stringifyInfo(problemId, url, info) ==
    LET sample(x) == Block("{", <<Member("input", Quoted(x.input)),
                                  Member("output", Quoted(x.output))>>, "}", 4)
    IN  Block("{",
              <<Member("id", Quoted(problemId)),
                Member("url", Quoted(url)),
                Member("title", Quoted(info.title)),
                Member("difficultyNum", Stringify(info.difficultyNum, 2))>>
              \o (IF info.difficulty.t = "function" THEN <<>>
                  ELSE <<Member("difficulty", Stringify(info.difficulty, 2))>>)
              \o <<Member("tags", Block("[", [i \in DOMAIN info.tags |-> Quoted(info.tags[i])],
                                        "]", 2)),
                   Member("description", Quoted(info.description)),
                   Member("inputFormat", Quoted(info.inputFormat)),
                   Member("outputFormat", Quoted(info.outputFormat)),
                   Member("samples", Block("[", [i \in DOMAIN info.samples |->
                                                    sample(info.samples[i])], "]", 2)),
                   Member("limit", Quoted(info.limit))>>,
              "}", 0)

\* the answer to a request for /mcp that is no POST, without the Allow header
MethodNotAllowed_noAllow ==
    [kind |-> "response", status |-> 405,
     headers |-> [ContentType |-> "application/json"],
     body |-> stringifyError(<<"MCP endpoint only accepts POST">>)]

\* the answer to a request for /mcp that is no POST
MethodNotAllowed ==
    [kind |-> "response", status |-> 405,
     headers |-> [ContentType |-> "application/json", Allow |-> "POST"],
     body |-> stringifyError(<<"MCP endpoint only accepts POST">>)]

FRONTEND_HTML == <<"<!DOCTYPE html>">>

Frontend ==
    [kind |-> "response", status |-> 200,
     headers |-> [ContentType |-> "text/html; charset=utf-8"],
     body |-> FRONTEND_HTML]

Answer(resp) == [next |-> "done", resp |-> resp]
AwaitPage(problemId, url) == [next |-> "fetch", problemId |-> problemId, url |-> url]

\* fetch(request, env, ctx) up to its first await: an answer, the hand-over
\* to handleMcpRequest, or the fetch of the problem's page
fetch(request) ==
    IF request.path \in {<<"/", "mcp">>, <<"/", "mcp", "/">>}
    THEN IF request.method # "POST" THEN Answer(MethodNotAllowed)
         ELSE [next |-> "mcp"]
    ELSE IF idMatch(request.path).matched
    THEN AwaitPage(idMatch(request.path).g1,
                   LuoguProblemLocation(idMatch(request.path).g1))
    ELSE IF request.path = <<"/", "api", "/", "fetch">>
    THEN IF ~Truthy(request.url)
         THEN Answer(jsonResponse(stringifyError(<<"Missing url query parameter">>), 400))
         ELSE IF ~Truthy(extractProblemId(request.url.v))
         THEN Answer(jsonResponse(stringifyError(
                         <<"Cannot extract problem ID from the provided URL">>), 400))
         ELSE AwaitPage(extractProblemId(request.url.v).v, request.url.v)
    ELSE Answer(Frontend)

\* the try block of a REST route once the transport settled
restResume(problemId, url, o) ==
    LET info == FetchedAndParsed[o]
    IN  IF info.thrown THEN jsonResponse(stringifyError(info.message), 500)
        ELSE jsonResponse(stringifyInfo(problemId, url, info.value), 200)

\* url.searchParams.get('url'): null when the parameter is absent
UrlParams ==
    {Null, Str(<<>>),
     Str(LuoguProblemLocation(<<"P", "1", "0", "0", "1">>)),
     Str(<<"http:", "/", "/", "evil.example", "/", "problem", "/", "x">>),
     Str(<<"https:", "/", "/", "www.luogu.com.cn", "/", "user", "/", "1">>),
     Str(<<"https:", "/", "/", "www.luogu.com.cn", "/", "problem", "/">>)}

Request(method, path, url) == [method |-> method, path |-> path, url |-> url]

Requests ==
    {Request(method, path, Null) :
        method \in {"GET", "POST", "DELETE"},
        path \in {<<"/", "mcp">>, <<"/", "mcp", "/">>}}
    \cup {Request("GET", <<"/", "api", "/", "fetch">>, url) : url \in UrlParams}
    \cup {Request("GET", <<"/", "api", "/", "problem", "/", "B", "2", "0", "0", "2">>, Null),
          Request("GET", <<"/", "api", "/", "problem", "/">>, Null),
          Request("GET", <<"/">>, Null)}

---------------------------------------------------------------------------
(* The worker: every invocation of handleMcpRequest runs to its next await. *)
(* Invocations that wait at the same await with the same locals are alike,  *)
(* so the ones in flight are kept as a count and a bag.                     *)

NoCall == [done |-> FALSE]
Unread == [unread |-> TRUE]

Completed(contentType, json, outcome, fetched, initBefore, resp) ==
    [done |-> TRUE, contentType |-> contentType, json |-> json, outcome |-> outcome,
     fetched |-> fetched, initBefore |-> initBefore, resp |-> resp]

IsInitialize(json) ==
    /\ ~json.thrown
    /\ isValidJsonRpcRequest(json.value)
    /\ Prop(json.value, "method") = Str(<<"initialize">>)

InFlight == awaitingJson + BagCardinality(awaitingFetch) + BagCardinality(awaitingRest)

Init ==
    /\ sessionId = Null
    /\ awaitingJson = 0
    /\ awaitingFetch = EmptyBag
    /\ awaitingRest = EmptyBag
    /\ last = NoCall
    /\ initSeen = FALSE
    /\ run = [stage |-> "idle"]
    /\ earlier = {}

\* handleMcpRequest(request) up to await request.json()
Start ==
    /\ InFlight < MaxInFlight
    /\ \E request \in Requests : fetch(request).next = "mcp"
    /\ \E contentType \in ContentTypes :
          IF contentType # Str(<<"application/json">>)
          THEN /\ last' = Completed(contentType, Unread, 0, <<>>, initSeen,
                              createErrorResponse(-32700,
                                  <<"Content-Type must be application/json">>, Undefined))
               /\ UNCHANGED awaitingJson
          ELSE /\ awaitingJson' = awaitingJson + 1
               /\ UNCHANGED last
    /\ UNCHANGED <<sessionId, awaitingFetch, awaitingRest, initSeen, run, earlier>>

\* request.json() settled: validation and dispatch, up to the response or to
\* await fetchProblemPage(url)
JsonSettled ==
    /\ awaitingJson > 0
    /\ awaitingJson' = awaitingJson - 1
    /\ UNCHANGED <<awaitingRest, run, earlier>>
    /\ \E json \in JsonBodies :
       \E sid \in IF IsInitialize(json) THEN SessionIds ELSE {Null} :
          LET step == handleMcpRequest(json, sessionId, sid)
          IN  /\ sessionId' = step.session
              /\ initSeen' = (initSeen \/ IsInitialize(json))
              /\ IF step.next = "done"
                 THEN /\ last' = Completed(Str(<<"application/json">>), json, 0, <<>>,
                                           initSeen, step.resp)
                      /\ UNCHANGED awaitingFetch
                 ELSE /\ awaitingFetch' = awaitingFetch (+)
                              SetToBag({[json |-> json, id |-> step.id,
                                         problemId |-> step.problemId, url |-> step.url,
                                         initBefore |-> initSeen]})
                      /\ UNCHANGED last

\* the transport settled: the rest of handleGetProblemTool and handleToolsCall
FetchSettled ==
    \E call \in BagToSet(awaitingFetch), o \in DOMAIN Outcomes :
        /\ awaitingFetch' = awaitingFetch (-) SetToBag({call})
        /\ last' = Completed(Str(<<"application/json">>), call.json, o, <<call.url>>,
                             call.initBefore,
                             createJsonRpcResponse(call.id,
                                 handleGetProblemToolResume(call.problemId, call.url, o)))
        /\ UNCHANGED <<sessionId, awaitingJson, awaitingRest, initSeen, run, earlier>>

\* the request the router answered, or whose page fetch settled, last
Routed(request, outcome, fetched, resp) ==
    [done |-> TRUE, request |-> request, json |-> Unread, outcome |-> outcome,
     fetched |-> fetched, resp |-> resp]

\* fetch(request) for a request that is not handed to handleMcpRequest, up to
\* the response or to await fetchProblemPage(problemUrl)
Route ==
    /\ InFlight < MaxInFlight
    /\ \E request \in Requests :
          LET step == fetch(request)
          IN  /\ step.next # "mcp"
              /\ IF step.next = "done"
                 THEN /\ last' = Routed(request, 0, <<>>, step.resp)
                      /\ UNCHANGED awaitingRest
                 ELSE /\ awaitingRest' = awaitingRest (+)
                              SetToBag({[request |-> request,
                                         problemId |-> step.problemId, url |-> step.url]})
                      /\ UNCHANGED last
    /\ UNCHANGED <<sessionId, awaitingJson, awaitingFetch, initSeen, run, earlier>>

\* the transport settled for a REST route
RestSettled ==
    \E call \in BagToSet(awaitingRest), o \in DOMAIN Outcomes :
        /\ awaitingRest' = awaitingRest (-) SetToBag({call})
        /\ last' = Routed(call.request, o, <<call.url>>,
                          restResume(call.problemId, call.url, o))
        /\ UNCHANGED <<sessionId, awaitingJson, awaitingFetch, initSeen, run, earlier>>

Next == Start \/ JsonSettled \/ FetchSettled \/ Route \/ RestSettled

Spec == Init /\ [][Next]_vars

---------------------------------------------------------------------------
(* The SDK server (mcp.js): the get_problem callback and formatProblemText *)

\* items.join(sep)
RECURSIVE JoinWith(_, _)
JoinWith(items, sep) ==
    IF items = <<>> THEN <<>>
    ELSE IF Len(items) = 1 THEN items[1]
    ELSE items[1] \o sep \o JoinWith(Tail(items), sep)

\* difficulty inside a template literal: the text of a string, the source text of a native function
difficultyLabel(difficulty) ==
    IF difficulty.t = "function"
    THEN <<"f", "u", "n", "c", "t", "i", "o", "n", " ">> \o difficulty.name
         \o <<"(", ")", " ", "{", " ", "[native code]", " ", "}">>
    ELSE ToText(difficulty)

\* the loop that ends after the first sample
samplesLines_first(samples, i) ==
    LET fence == <<"GraveAccent", "GraveAccent", "GraveAccent">>
    IN  IF i > Len(samples) THEN <<>>
        ELSE << <<"#", "#", " ", "YangLi", " ">> \o NaturalText(i),
                <<"*", "*", "ShuRu", "*", "*">>, fence, samples[i].input, fence,
                <<"*", "*", "ShuChu", "*", "*">>, fence, samples[i].output, fence,
                <<>> >>

\* the lines samples.forEach pushes for the samples from the i-th on, i counted
\* from 1; a fence is three grave accents, each written as a token
RECURSIVE samplesLines(_, _)
samplesLines(samples, i) ==
    LET fence == <<"GraveAccent", "GraveAccent", "GraveAccent">>
    IN  IF i > Len(samples) THEN <<>>
        ELSE << <<"#", "#", " ", "YangLi", " ">> \o NaturalText(i),
                <<"*", "*", "ShuRu", "*", "*">>, fence, samples[i].input, fence,
                <<"*", "*", "ShuChu", "*", "*">>, fence, samples[i].output, fence,
                <<>> >>
             \o samplesLines(samples, i + 1)

\* the sample loop starting where an index that outlives the call stands
formatProblemText_counting(id, url, info) ==
    JoinWith(
        << <<"#", " ">> \o id \o <<" ">> \o info.title,
           <<>>,
           <<"*", "*", "NanDu", "*", "*", ":", " ">> \o difficultyLabel(info.difficulty)
               \o <<" ", " ", "*", "*", "BiaoQian", "*", "*", ":", " ">>
               \o (IF Len(info.tags) # 0 THEN JoinWith(info.tags, <<"DunHao">>) ELSE <<"Wu">>),
           <<"*", "*", "TiMuLianJie", "*", "*", ":", " ">> \o url,
           <<>>,
           <<"#", "#", " ">> \o LabelDescription,
           IF info.description # <<>> THEN info.description ELSE <<"Wu">>,
           <<>>,
           <<"#", "#", " ">> \o LabelInputFormat,
           IF info.inputFormat # <<>> THEN info.inputFormat ELSE <<"Wu">>,
           <<>>,
           <<"#", "#", " ">> \o LabelOutputFormat,
           IF info.outputFormat # <<>> THEN info.outputFormat ELSE <<"Wu">>,
           <<>> >>
        \o samplesLines(info.samples, 1 + Cardinality(earlier))
        \o (IF info.limit # <<>> THEN << <<"#", "#", " ">> \o LabelHint, info.limit >>
            ELSE <<>>),
        <<"\n">>)

\* the text with the constraints block whatever limit is
formatProblemText_limitAlways(id, url, info) ==
    JoinWith(
        << <<"#", " ">> \o id \o <<" ">> \o info.title,
           <<>>,
           <<"*", "*", "NanDu", "*", "*", ":", " ">> \o difficultyLabel(info.difficulty)
               \o <<" ", " ", "*", "*", "BiaoQian", "*", "*", ":", " ">>
               \o (IF Len(info.tags) # 0 THEN JoinWith(info.tags, <<"DunHao">>) ELSE <<"Wu">>),
           <<"*", "*", "TiMuLianJie", "*", "*", ":", " ">> \o url,
           <<>>,
           <<"#", "#", " ">> \o LabelDescription,
           IF info.description # <<>> THEN info.description ELSE <<"Wu">>,
           <<>>,
           <<"#", "#", " ">> \o LabelInputFormat,
           IF info.inputFormat # <<>> THEN info.inputFormat ELSE <<"Wu">>,
           <<>>,
           <<"#", "#", " ">> \o LabelOutputFormat,
           IF info.outputFormat # <<>> THEN info.outputFormat ELSE <<"Wu">>,
           <<>> >>
        \o samplesLines(info.samples, 1)
        \o << <<"#", "#", " ">> \o LabelHint, info.limit >>,
        <<"\n">>)

formatProblemText(id, url, info) ==
    JoinWith(
        << <<"#", " ">> \o id \o <<" ">> \o info.title,
           <<>>,
           <<"*", "*", "NanDu", "*", "*", ":", " ">> \o difficultyLabel(info.difficulty)
               \o <<" ", " ", "*", "*", "BiaoQian", "*", "*", ":", " ">>
               \o (IF Len(info.tags) # 0 THEN JoinWith(info.tags, <<"DunHao">>) ELSE <<"Wu">>),
           <<"*", "*", "TiMuLianJie", "*", "*", ":", " ">> \o url,
           <<>>,
           <<"#", "#", " ">> \o LabelDescription,
           IF info.description # <<>> THEN info.description ELSE <<"Wu">>,
           <<>>,
           <<"#", "#", " ">> \o LabelInputFormat,
           IF info.inputFormat # <<>> THEN info.inputFormat ELSE <<"Wu">>,
           <<>>,
           <<"#", "#", " ">> \o LabelOutputFormat,
           IF info.outputFormat # <<>> THEN info.outputFormat ELSE <<"Wu">>,
           <<>> >>
        \o samplesLines(info.samples, 1)
        \o (IF info.limit # <<>> THEN << <<"#", "#", " ">> \o LabelHint, info.limit >>
            ELSE <<>>),
        <<"\n">>)

\* ^[A-Za-z][A-Za-z0-9_]*$
MatchesProblemIdRe(s) ==
    /\ Len(s) >= 1
    /\ s[1] \in Upper \cup Lower
    /\ \A i \in 2..Len(s) : s[i] \in Upper \cup Lower \cup Digit \cup {"_"}

\* the words of the invalid-format message
InvalidFormatMarker == <<"GeShiWuXiao">>

\* what the callback returns
InvalidIdResult(problem_id) ==
    [isError |-> TRUE,
     text |-> <<"TiMuBianHao">> \o InvalidFormatMarker \o <<":", " ">> \o problem_id
              \o <<"JuHao", "QingShiYongHeFaDeLuoGuTiMuBianHao">>]

\* the problem_id arguments the SDK hands to the callback (strings, by its schema)
ToolIds == {<<"P", "1", "0", "0", "1">>, <<"1", "0", "0", "1">>}

\* what the transport may do for the callback: two failures, then each document
Pages ==
    <<Outcomes[1], Outcomes[2]>>
    \o [d \in DOMAIN Docs |-> Responds(200, <<"OK">>, Return(Docs[d]))]

\* fetchProblemPage(url) followed by parseProblemHtml(html), for each page
PageParsed ==
    [p \in DOMAIN Pages |->
        LET html == fetchProblemPage(<<>>, Pages[p])
        IN  IF html.thrown THEN html ELSE parseProblemHtml(html.value)]

Pending == [pending |-> TRUE]
ToolRun(stage, id, page, info, outcome) ==
    [stage |-> stage, id |-> id, page |-> page, info |-> info, outcome |-> outcome]

\* the callback is called: the test of PROBLEM_ID_RE, up to await fetchProblemPage(url)
GetProblem ==
    /\ run.stage \in {"idle", "done"}
    /\ earlier' = IF run.stage = "done" THEN earlier \cup {run} ELSE earlier
    /\ Cardinality(earlier') < MaxRuns
    /\ \E problem_id \in ToolIds :
          run' = IF ~MatchesProblemIdRe(problem_id)
                 THEN ToolRun("done", problem_id, 0, Pending,
                              Return(InvalidIdResult(problem_id)))
                 ELSE ToolRun("fetch", problem_id, 0, Pending, Pending)
    /\ UNCHANGED workerVars

\* the transport settled: html is at hand, or the callback rejects
PageSettled ==
    /\ run.stage = "fetch"
    /\ \E p \in DOMAIN Pages :
          LET html == fetchProblemPage(LuoguProblemLocation(run.id), Pages[p])
          IN  run' = IF html.thrown THEN ToolRun("done", run.id, p, Pending, html)
                     ELSE ToolRun("html", run.id, p, Pending, Pending)
    /\ UNCHANGED <<workerVars, earlier>>

\* const info = parseProblemHtml(html)
Parse ==
    /\ run.stage = "html"
    /\ LET info == PageParsed[run.page]
       IN  run' = IF info.thrown THEN ToolRun("done", run.id, run.page, info, info)
                  ELSE ToolRun("info", run.id, run.page, info, Pending)
    /\ UNCHANGED <<workerVars, earlier>>

\* return {content: [{type: 'text', text: formatProblemText({id, url, ...info})}]}
Format ==
    /\ run.stage = "info"
    /\ run' = ToolRun("done", run.id, run.page, run.info,
                      Return([text |-> formatProblemText(
                          run.id, LuoguProblemLocation(run.id), run.info.value)]))
    /\ UNCHANGED <<workerVars, earlier>>

ToolNext == GetProblem \/ PageSettled \/ Parse \/ Format

ToolSpec == Init /\ [][ToolNext]_vars

---------------------------------------------------------------------------
(* Properties of the dispatcher, stated over the call that completed last *)

\* the call that completed last carried a well-formed envelope
Enveloped ==
    /\ last.done
    /\ last.json # Unread
    /\ ~last.json.thrown
    /\ isValidJsonRpcRequest(last.json.value)

LastId == Prop(last.json.value, "id")
LastMethod == Prop(last.json.value, "method")
LastParams == Prop(last.json.value, "params")

IsRequest == Enveloped /\ LastId # Undefined
IsNotification == Enveloped /\ LastId = Undefined

HasBody == last.resp.kind = "response" /\ last.resp.body # Null
HasResult == HasBody /\ "result" \in DOMAIN last.resp.body
HasError == HasBody /\ "error" \in DOMAIN last.resp.body
IsToolResult == HasResult /\ "isError" \in DOMAIN last.resp.body.result
ResultText == last.resp.body.result.content[1].text

\* the call was turned away because no session exists
TurnedAway == HasError /\ last.resp.body.error.message = <<"Server not initialized">>

HasInfix(s, t) ==
    \E i \in 0..(Len(s) - Len(t)) : SubSeq(s, i + 1, i + Len(t)) = t

\* tools/call with an object as params that names this tool
Calls(name) ==
    /\ Enveloped
    /\ LastMethod = Str(<<"tools/call">>)
    /\ TypeOf(LastParams) = "object"
    /\ ~IsNullish(LastParams)
    /\ Prop(LastParams, "name") = Str(<<name>>)

LastArgs == Prop(LastParams, "arguments")
LastProblemId == IF IsNullish(LastArgs) THEN Undefined ELSE Prop(LastArgs, "problem_id")

\* C1: a well-formed tools/list, ping or tools/call request for a registered
\* tool gets a response that carries a result and no error object, whether or
\* not an initialize call was handled before it.
C1_HandshakeDoesNotGate ==
    (/\ IsRequest
     /\ \/ LastMethod \in {Str(<<"tools/list">>), Str(<<"ping">>)}
        \/ Calls("get_problem")
        \/ Calls("search_problems"))
    => HasResult /\ ~HasError

\* the response the call gets when it is the only call the worker ever handles
AloneResponse(json, o) ==
    LET step == handleMcpRequest(json, Null, CHOOSE sid \in SessionIds : TRUE)
    IN  IF step.next = "done" THEN step.resp
        ELSE createJsonRpcResponse(step.id,
                 handleGetProblemToolResume(step.problemId, step.url, o))

\* C2: the response to a call equals the response the same call gets when it
\* is handled alone, whatever calls were handled before it or alongside it.
C2_CallsNeverInterfere ==
    (last.done /\ last.json # Unread) => last.resp = AloneResponse(last.json, last.outcome)

\* C3: an envelope without an id key is answered with an empty body, whatever
\* its method and whatever calls came before.
C3_NotificationHasNoBody ==
    IsNotification => (last.resp.kind = "response" /\ last.resp.body = Null)

\* C4: a notification (an envelope without an id key) is answered with
\* HTTP status 202.
C4_NotificationStatus202 ==
    IsNotification => (last.resp.kind = "response" /\ last.resp.status = 202)

\* C5: an envelope whose id key is present, the values 0, "" and null
\* included, gets a response body that echoes that id, whatever its method.
C5_IdPresenceMakesRequest ==
    IsRequest => (/\ HasBody
                  /\ "id" \in DOMAIN last.resp.body
                  /\ last.resp.body.id = LastId)

C7_MissingArgumentIsToolError ==
    (IsRequest /\ Calls("get_problem") /\ LastProblemId = Undefined)
    => (/\ IsToolResult
        /\ ~HasError
        /\ last.resp.body.result.isError
        /\ ResultText # <<>>)

\* C8: get_problem, once the call is past the session check, takes a string
\* problem_id to the fetch exactly when it matches ^[A-Za-z][A-Za-z0-9_]*$ and
\* the result for a matching one never carries the invalid-format marker; a
\* string that does not match gets isError true with a text that carries the
\* marker and the value.
C8_ProblemIdPattern ==
    (/\ IsRequest
     /\ Calls("get_problem")
     /\ TypeOf(LastProblemId) = "string"
     /\ ~TurnedAway)
    => IF MatchesProblemIdRe(LastProblemId.v)
       THEN /\ last.fetched # <<>>
            /\ IsToolResult
            /\ ~HasInfix(ResultText, InvalidFormatMarker)
       ELSE /\ last.fetched = <<>>
            /\ IsToolResult
            /\ last.resp.body.result.isError
            /\ HasInfix(ResultText, InvalidFormatMarker)
            /\ HasInfix(ResultText, LastProblemId.v)

\* the transport did not deliver the document
FetchFailed(outcome) ==
    \/ outcome.kind = "rejected"
    \/ ~(outcome.status \in 200..299)
    \/ outcome.text.thrown

\* what the transport says about its failure
FailureDescription(outcome) ==
    IF outcome.kind = "rejected" THEN outcome.message
    ELSE IF ~(outcome.status \in 200..299)
    THEN NumberText(outcome.status) \o <<" ">> \o outcome.statusText
    ELSE outcome.text.message

LastFetched == last.done /\ "contentType" \in DOMAIN last /\ last.fetched # <<>>

\* C9: when the fetch made for get_problem fails (the promise rejects, the
\* status is no success, the body cannot be read), the call gets a result, and
\* no error object, with isError true and a text that carries the transport's
\* description of the failure.
C9_FetchFailureIsToolError ==
    (LastFetched /\ FetchFailed(Outcomes[last.outcome]))
    => (/\ IsToolResult
        /\ ~HasError
        /\ last.resp.body.result.isError
        /\ HasInfix(ResultText, FailureDescription(Outcomes[last.outcome])))

\* a get_problem call whose fetch ended with status 404 has completed
C9_Witness ==
    /\ LastFetched
    /\ Calls("get_problem")
    /\ Outcomes[last.outcome].kind = "response"
    /\ Outcomes[last.outcome].status = 404
    /\ IsToolResult
    /\ last.resp.body.result.isError

\* C10: once the document was fetched, get_problem answers with a result
\* whose isError is false, whatever the document holds.
C10_ExtractionNeverFails ==
    (LastFetched /\ ~FetchFailed(Outcomes[last.outcome]))
    => (/\ IsToolResult
        /\ ~HasError
        /\ ~last.resp.body.result.isError)

\* the call that completed last went through handleMcpRequest
McpCall == last.done /\ "contentType" \in DOMAIN last

\* the Content-Type header denotes JSON, bare or with parameters
DenotesJson(contentType) ==
    contentType \in {Str(<<"application/json">>), Str(<<"application/json; charset=utf-8">>)}

\* C11: a POST whose Content-Type is application/json with a parameter is
\* taken like the bare value: its body is read and it is not answered with the
\* Content-Type error.
C11_ParameterizedJsonAccepted ==
    (McpCall /\ DenotesJson(last.contentType))
    => (/\ last.json # Unread
        /\ ~(HasError /\ last.resp.body.error.message
                            = <<"Content-Type must be application/json">>))

\* C12: a POST whose Content-Type does not denote JSON is answered, before
\* the body is read, with a JSON error body of code -32700 and not with
\* status 415.
C12_WrongContentTypeIsParseError ==
    (McpCall /\ ~DenotesJson(last.contentType))
    => (/\ last.json = Unread
        /\ HasError
        /\ ~HasResult
        /\ last.resp.body.error.code = -32700
        /\ last.resp.status # 415)

\* a POST with Content-Type text/plain has been answered
C12_Witness ==
    /\ McpCall
    /\ last.contentType = Str(<<"text/plain">>)
    /\ HasError

\* the body was read and is no JSON text
BodyUnparsable == McpCall /\ last.json # Unread /\ last.json.thrown

\* C13: a body that is no JSON text is answered with an error of code -32700
\* and id null, and with no result.
C13_InvalidJsonIsParseError ==
    BodyUnparsable
    => (/\ HasError
        /\ ~HasResult
        /\ last.resp.body.error.code = -32700
        /\ "id" \in DOMAIN last.resp.body
        /\ last.resp.body.id = Null)

\* a call whose body did not parse has been answered
C13_Witness == BodyUnparsable /\ HasError

\* the parsed body has not the shape of an envelope
LacksEnvelopeShape(v) ==
    \/ v.t # "object"
    \/ Prop(v, "jsonrpc") # Str(<<"2.0">>)
    \/ Prop(v, "method").t # "string"
    \/ Prop(v, "id").t \notin {"undefined", "null", "string", "number"}

BodyMisshaped ==
    /\ McpCall
    /\ last.json # Unread
    /\ ~last.json.thrown
    /\ LacksEnvelopeShape(last.json.value)

\* C14: a parsed body without the envelope shape (jsonrpc other than "2.0",
\* method absent or no string, id of another type than string, number or null)
\* is answered with the invalid-request error of code -32600 and id null,
\* whether or not a session exists.
C14_MisshapedIsInvalidRequest ==
    BodyMisshaped
    => (/\ HasError
        /\ ~HasResult
        /\ last.resp.body.error.code = -32600
        /\ last.resp.body.error.message
              = <<"Invalid Request: Not a valid JSON-RPC 2.0 request">>
        /\ last.resp.body.id = Null)

\* a body with jsonrpc "1.0" has been answered while a session exists
C14_Witness ==
    /\ BodyMisshaped
    /\ last.json.value.t = "object"
    /\ Prop(last.json.value, "jsonrpc") = Str(<<"1.0">>)
    /\ Truthy(sessionId)
    /\ HasError

DispatchedMethods ==
    {Str(<<"initialize">>), Str(<<"ping">>), Str(<<"tools/list">>), Str(<<"tools/call">>)}

\* C15: a well-formed request whose method is none of initialize, ping,
\* tools/list and tools/call gets an error of code -32601 with the caller's id,
\* whatever calls came before.
C15_UnknownMethodNotFound ==
    (IsRequest /\ LastMethod \notin DispatchedMethods)
    => (/\ HasError
        /\ ~HasResult
        /\ last.resp.body.error.code = -32601
        /\ last.resp.body.id = LastId)

\* C16: a ping request gets a response with the result {} and the request's
\* id, and no error object.
C16_PingAnswersEmptyObject ==
    (IsRequest /\ LastMethod = Str(<<"ping">>))
    => (/\ HasResult
        /\ ~HasError
        /\ last.resp.body.result = EmptyObject
        /\ last.resp.body.id = LastId)

\* params.protocolVersion of the call that completed last
OfferedVersion ==
    IF IsNullish(LastParams) THEN Undefined ELSE Prop(LastParams, "protocolVersion")

\* C17: initialize gets, for every protocol version the client offers, a
\* result with a serverInfo.name that is not empty, capabilities that contain
\* tools, and a protocolVersion; when 2025-11-25 is offered the answered
\* protocolVersion is 2025-11-25.
C17_InitializeAcceptsAnyVersion ==
    (IsRequest /\ LastMethod = Str(<<"initialize">>))
    => (/\ HasResult
        /\ ~HasError
        /\ last.resp.body.result.serverInfo.name # <<>>
        /\ "tools" \in DOMAIN last.resp.body.result.capabilities
        /\ "protocolVersion" \in DOMAIN last.resp.body.result
        /\ (OfferedVersion = Str(<<"2025-11-25">>)
               => last.resp.body.result.protocolVersion = <<"2025-11-25">>))

\* the names in the result of tools/list
ListedTools == last.resp.body.result.tools
ListedNames == {ListedTools[i].name : i \in DOMAIN ListedTools}

\* tools/call named a tool and got past the session check
NamedCall ==
    /\ IsRequest
    /\ LastMethod = Str(<<"tools/call">>)
    /\ Prop(LastParams, "name").t = "string"
    /\ ~TurnedAway

\* C18: the names tools/list returns have no duplicates and contain
\* get_problem, tools/call answers not-found exactly for the names that are
\* not listed, and get_problem is the only tool listed.
C18_RegistryConsistent ==
    /\ (IsRequest /\ LastMethod = Str(<<"tools/list">>) /\ HasResult)
       => (/\ Cardinality(ListedNames) = Len(ListedTools)
           /\ <<"get_problem">> \in ListedNames
           /\ ListedNames = {<<"get_problem">>})
    /\ NamedCall
       => ((HasError /\ last.resp.body.error.code = -32601)
              <=> Prop(LastParams, "name").v
                     \notin {ToolDescriptors[i].name : i \in DOMAIN ToolDescriptors})

\* the router answered the request itself, or after the page fetch
RoutedCall == last.done /\ "request" \in DOMAIN last

McpPaths == {<<"/", "mcp">>, <<"/", "mcp", "/">>}

NonPostToMcp ==
    /\ RoutedCall
    /\ last.request.path \in McpPaths
    /\ last.request.method # "POST"

\* C19: a request to /mcp or /mcp/ that is no POST is answered with status
\* 405 and the header Allow: POST, and the step that answers it starts no
\* invocation of handleMcpRequest and leaves the session alone.
C19_NonPostIs405 ==
    /\ [](NonPostToMcp
            => (/\ last.resp.status = 405
                /\ "Allow" \in DOMAIN last.resp.headers
                /\ last.resp.headers.Allow = "POST"
                /\ last.json = Unread))
    /\ [][(last' # last /\ NonPostToMcp')
             => UNCHANGED <<sessionId, awaitingJson, awaitingFetch>>]_vars

\* GET /mcp/ has been answered
C19_Witness ==
    /\ NonPostToMcp
    /\ last.request.method = "GET"
    /\ last.request.path = <<"/", "mcp", "/">>
    /\ last.resp.status = 405

\* the URL is https://www.luogu.com.cn/problem/<id>
IsProblemLocation(url) ==
    /\ Len(url) > 7
    /\ SubSeq(url, 1, 7) = LuoguProblemLocation(<<>>)
    /\ \A i \in 8..Len(url) : url[i] # "/"

FetchPath == <<"/", "api", "/", "fetch">>

\* C20: GET /api/fetch answers 400 and fetches nothing when the url
\* parameter is absent or is no https://www.luogu.com.cn/problem/<id> URL, and
\* no other URL is ever handed to the transport.
C20_FetchRouteChecksUrl ==
    /\ (RoutedCall /\ last.request.path = FetchPath
          /\ ~(last.request.url.t = "string" /\ IsProblemLocation(last.request.url.v)))
       => (last.resp.status = 400 /\ last.fetched = <<>>)
    /\ \A call \in BagToSet(awaitingRest) :
          call.request.path = FetchPath => IsProblemLocation(call.url)

---------------------------------------------------------------------------
(* The REST routes' status, and the extractor as the SDK callback runs it *)

\* a REST request whose page fetch settled has been answered
RestAnswered == RoutedCall /\ last.fetched # <<>>

\* the body is JSON.stringify({error: ...}, null, 2)
IsErrorBody(body) ==
    /\ Len(body) >= 8
    /\ SubSeq(body, 1, 8) = <<"{", "\n", " ", " ", "\"", "error", "\"", ":">>

\* the id the route took from the request
RestId ==
    IF last.request.path = FetchPath THEN extractProblemId(last.request.url.v).v
    ELSE idMatch(last.request.path).g1

\* C21: on GET /api/problem/<id> and GET /api/fetch the status tells the
\* outcome: when the fetch succeeded the answer is 200 with the problem record,
\* id and url; when the transport failed it is 500 with {error: message}; and
\* no REST answer carries an error body with status 200.
C21_StatusReflectsOutcome ==
    /\ (RestAnswered /\ ~FetchFailed(Outcomes[last.outcome]))
       => /\ last.resp.status = 200
          /\ ~IsErrorBody(last.resp.body)
          /\ HasInfix(last.resp.body, Member("id", Quoted(RestId)))
          /\ HasInfix(last.resp.body, Member("url", Quoted(last.fetched[1])))
          /\ HasInfix(last.resp.body, <<"\"", "title", "\"", ":">>)
    /\ (RestAnswered /\ FetchFailed(Outcomes[last.outcome]))
       => /\ last.resp.status = 500
          /\ last.resp.body
               = stringifyError(fetchProblemPage(<<>>, Outcomes[last.outcome]).message)
    /\ (RoutedCall /\ last.request.path \notin McpPaths /\ last.request.path # <<"/">>)
       => (IsErrorBody(last.resp.body) => last.resp.status # 200)

\* the callback's call has a document and parseProblemHtml has run on it
Extracted == run.stage \in {"info", "done"} /\ run.info # Pending

\* for each page that delivers a document: the problem object of its payload
\* (undefined without one), and which heading and labelled sections it has
PageFacts ==
    [p \in DOMAIN Pages |->
        IF FetchFailed(Pages[p]) THEN [problem |-> Undefined]
        ELSE LET html == Pages[p].text.value
             IN  [problem |-> problemOf(embeddedJson(scriptTagRegex(html))),
                  title |-> titleRegex(html).matched,
                  description |-> sectionRegex(html, LabelDescription, FALSE).matched,
                  formatI |-> sectionRegex(html, LabelInputFormat, FALSE).matched,
                  formatO |-> sectionRegex(html, LabelOutputFormat, FALSE).matched,
                  hint |-> sectionRegex(html, LabelHint, TRUE).matched,
                  samples |-> sampleRegex(html, 1).matched]]

RunProblem == PageFacts[run.page].problem

\* C22: parseProblemHtml returns a record for every document: the empty one,
\* garbage, a payload that does not parse, and a payload whose values have
\* unexpected types (null among the tags or the samples, a title or a content
\* field that is no string).
C22_ExtractNeverFaults == Extracted => ~run.info.thrown

\* parseProblemHtml returned a record
Returned == Extracted /\ ~run.info.thrown

\* the payload has a truthy title, or a truthy field of content
PayloadTitle == Truthy(RunProblem) /\ Truthy(Prop(RunProblem, "title"))
PayloadContent(key) ==
    /\ Truthy(RunProblem)
    /\ Truthy(Prop(RunProblem, "content"))
    /\ Truthy(Prop(Prop(RunProblem, "content"), key))

IsText(x) == x \in Seq(STRING)

\* C23: in the record extraction returns, title, description, inputFormat,
\* outputFormat and limit are strings, and each of them that neither the
\* payload nor its heading or labelled section provides is its sentinel.
C23_TextFieldsPresent ==
    Returned =>
        LET info == run.info.value
        IN  /\ \A f \in {"title", "description", "inputFormat", "outputFormat", "limit"} :
                  f \in DOMAIN info /\ IsText(info[f])
            /\ (~PayloadTitle /\ ~PageFacts[run.page].title) => info.title = UnknownTitle
            /\ (~PayloadContent("description") /\ ~PageFacts[run.page].description)
               => info.description = NoDescription
            /\ (~PayloadContent("formatI") /\ ~PageFacts[run.page].formatI)
               => info.inputFormat = NoInputFormat
            /\ (~PayloadContent("formatO") /\ ~PageFacts[run.page].formatO)
               => info.outputFormat = NoOutputFormat
            /\ (~PayloadContent("hint") /\ ~PageFacts[run.page].hint)
               => info.limit = NoLimit

\* a page with a heading and no payload fields: the title is the heading's
\* text and the other four fields are their sentinels
C23_Witness ==
    /\ Returned
    /\ ~PayloadTitle
    /\ run.info.value.title = <<"T", "2">>
    /\ run.info.value.description = NoDescription
    /\ run.info.value.inputFormat = NoInputFormat
    /\ run.info.value.outputFormat = NoOutputFormat
    /\ run.info.value.limit = NoLimit

\* the payload's difficulty code, undefined when the payload has none
RunCode == IF Truthy(RunProblem) THEN Prop(RunProblem, "difficulty") ELSE Undefined

\* C24: the difficulty lookup is total: a code from 1 to 7 gives its fixed
\* label with difficultyNum the code, and any other code, or none, gives a
\* string that is not empty: the code as text, or the unknown-difficulty label.
C24_DifficultyTotal ==
    Returned =>
        LET info == run.info.value
        IN  IF RunCode.t = "number" /\ RunCode.v \in 1..7
            THEN /\ info.difficulty = Str(difficultyMap[NumberText(RunCode.v)])
                 /\ info.difficultyNum = RunCode
            ELSE /\ info.difficulty.t = "string"
                 /\ info.difficulty.v # <<>>
                 /\ \/ info.difficulty.v = UnknownDifficulty
                    \/ info.difficulty.v = ToText(RunCode)

\* the payload's tag IDs, when the payload has an array of them
RunTags == IF Truthy(RunProblem) THEN Prop(RunProblem, "tags") ELSE Undefined

\* the ID is one of the table's
InTagTable(id) == \E k \in DOMAIN createTagMap : NumberText(k) = id
TagOf(id) == createTagMap[CHOOSE k \in DOMAIN createTagMap : NumberText(k) = id]

\* C25: n tag IDs give n tag names in the same order: the table's name for an
\* ID of the table, and for any other ID the unknown-tag placeholder around
\* the ID as it was given.
C25_TagsKeptInOrder ==
    (Returned /\ RunTags.t = "array") =>
        LET tags == run.info.value.tags
        IN  /\ Len(tags) = Len(RunTags.v)
            /\ \A i \in DOMAIN RunTags.v :
                  LET id == ToText(RunTags.v[i])
                  IN  tags[i] = IF InTagTable(id) THEN TagOf(id)
                                ELSE <<"WeiZhiBiaoQian", "(">> \o id \o <<")">>

\* the payload's samples
RunSamples == IF Truthy(RunProblem) THEN Prop(RunProblem, "samples") ELSE Undefined

\* an [input, output] pair of texts
IsTextPair(x) ==
    /\ x.t = "array"
    /\ Len(x.v) = 2
    /\ x.v[1].t = "string"
    /\ x.v[2].t = "string"

\* C26: when the payload's samples are an array of n [input, output] pairs, the
\* record has exactly n samples and the i-th holds the normalized input and
\* output of the i-th pair; an empty array gives no samples, whatever sample
\* headings the page has.
C26_SamplesKeptInOrder ==
    (/\ Returned
     /\ RunSamples.t = "array"
     /\ \A i \in DOMAIN RunSamples.v : IsTextPair(RunSamples.v[i]))
        => LET samples == run.info.value.samples
           IN  /\ Len(samples) = Len(RunSamples.v)
               /\ \A i \in DOMAIN RunSamples.v :
                     /\ samples[i].input = cleanString(RunSamples.v[i].v[1]).value
                     /\ samples[i].output = cleanString(RunSamples.v[i].v[2]).value

\* the payload with two pairs, the second with markup, in a page that also has
\* sample headings
C26_Witness ==
    /\ Returned
    /\ RunSamples.t = "array"
    /\ Len(RunSamples.v) = 2
    /\ PageFacts[run.page].samples
    /\ run.info.value.samples
         = << [input |-> <<"1", " ", "2">>, output |-> <<"3">>],
              [input |-> <<"4", " ", "5">>, output |-> <<"6">>] >>

\* the calls of the callback that ended, the one at hand included
Ended == earlier \cup (IF run.stage = "done" THEN {run} ELSE {})

---------------------------------------------------------------------------
(* The dispatcher's faults, fetches and response bodies *)

\* C28: handleMcpRequest never rejects: every POST, whatever its headers, body
\* and params, is answered with a protocol error, a tool result, or the
\* acceptance of a notification.
C28_NoFaultEscapes == McpCall => last.resp.kind = "response"

\* the body the call brought is an accepted envelope for tools/call that names
\* get_problem with a string problem_id of a valid format
ValidGetProblem(json) ==
    /\ ~json.thrown
    /\ isValidJsonRpcRequest(json.value)
    /\ Prop(json.value, "method") = Str(<<"tools/call">>)
    /\ ~IsNullish(Prop(json.value, "params"))
    /\ Prop(Prop(json.value, "params"), "name") = Str(<<"get_problem">>)
    /\ ~IsNullish(Prop(Prop(json.value, "params"), "arguments"))
    /\ LET id == Prop(Prop(Prop(json.value, "params"), "arguments"), "problem_id")
       IN  id.t = "string" /\ MatchesProblemIdRe(id.v)

ProblemIdOf(json) == Prop(Prop(Prop(json.value, "params"), "arguments"), "problem_id").v

\* the answer reports a protocol error or a failed validation of the argument
EndedUnfetched ==
    \/ HasError
    \/ /\ IsToolResult
       /\ \/ HasInfix(ResultText, <<"Invalid problem ID format: ">>)
          \/ HasInfix(ResultText, <<"Missing required parameter: problem_id">>)

\* C29: the dispatcher calls the transport only for a call whose envelope
\* passed every check, after a session exists, and whose problem_id passed the
\* format validation; it does so once per call, with
\* https://www.luogu.com.cn/problem/<problem_id>; a call that ends in a protocol
\* error or a validation failure made no fetch; and when a fetch fails the call
\* ends without another fetch.
C29_FetchOnlyAfterValidation ==
    /\ [](/\ \A call \in BagToSet(awaitingFetch) :
               /\ ValidGetProblem(call.json)
               /\ call.initBefore
               /\ call.problemId = ProblemIdOf(call.json)
               /\ call.url = <<"https://www.luogu.com.cn/problem/">> \o call.problemId
          /\ LastFetched
               => /\ ValidGetProblem(last.json)
                  /\ last.fetched
                       = << <<"https://www.luogu.com.cn/problem/">> \o ProblemIdOf(last.json) >>
          /\ (McpCall /\ EndedUnfetched) => last.fetched = <<>>)
    /\ [][(last' # last /\ LastFetched' /\ FetchFailed(Outcomes[last'.outcome]))
             => /\ BagCardinality(awaitingFetch') = BagCardinality(awaitingFetch) - 1
                /\ UNCHANGED <<awaitingJson, awaitingRest>>]_vars

\* a get_problem call for P1001 ended after its one fetch was rejected
C29_Witness ==
    /\ LastFetched
    /\ Outcomes[last.outcome].kind = "rejected"
    /\ last.fetched = << <<"https://www.luogu.com.cn/problem/", "P", "1", "0", "0", "1">> >>
    /\ IsToolResult
    /\ last.resp.body.result.isError

\* C30: every body the dispatcher sends has jsonrpc "2.0" and exactly one of
\* result and error; when the envelope was accepted its id is the request's
\* id, and an id of null is sent only with an error raised before the envelope
\* was accepted (or when null is the request's own id).
C30_BodyWellFormed ==
    (McpCall /\ HasBody) =>
        LET body == last.resp.body
        IN  /\ body.jsonrpc = "2.0"
            /\ HasResult # HasError
            /\ Enveloped => IF LastId = Undefined THEN "id" \notin DOMAIN body
                            ELSE "id" \in DOMAIN body /\ body.id = LastId
            /\ ("id" \in DOMAIN body /\ body.id = Null)
               => IF Enveloped THEN LastId = Null ELSE HasError

---------------------------------------------------------------------------
(* The fallback after a payload that does not parse, and the heading scan *)

\* the document without its payload block
WithoutBlock(html) ==
    LET i == Find(html, ScriptOpen, 1)
        j == IF i = 0 THEN 0 ELSE Find(html, ScriptClose, i + Len(ScriptOpen))
    IN  IF j = 0 THEN html
        ELSE SubSeq(html, 1, i - 1) \o SubSeq(html, j + Len(ScriptClose), Len(html))

\* for each page that delivers a document: whether it has a payload block
\* whose text does not parse, and what parseProblemHtml makes of the document
\* without the block
PageBlockless ==
    [p \in DOMAIN Pages |->
        IF FetchFailed(Pages[p]) THEN [unparsed |-> FALSE]
        ELSE LET html == Pages[p].text.value
                 m == scriptTagRegex(html)
             IN  [unparsed |-> m.matched /\ m.g1 # <<>> /\ JSONparse(m.g1).thrown,
                  parsed |-> parseProblemHtml(WithoutBlock(html))]]

\* C31: a document whose payload block does not parse gives exactly the
\* record the same document gives without the block (labelled sections, then
\* sentinels, difficultyNum null, no tags), and no fault reaches the caller.
C31_UnparsedBlockAsNoBlock ==
    (Extracted /\ PageBlockless[run.page].unparsed)
        => /\ ~run.info.thrown
           /\ run.info = PageBlockless[run.page].parsed

\* the heading pairs of a document in document order, each with the text after
\* its two headings: the pair found first from index from on, then the pairs
\* from the heading on that ends its output
RECURSIVE HeadingPairs(_, _)
HeadingPairs(html, from) ==
    LET m == sampleRegex(html, from)
    IN  IF ~m.matched THEN <<>>
        ELSE <<sampleFound(m)>>
             \o (IF m.lastIndex > Len(html) THEN <<>>
                 ELSE HeadingPairs(html, m.lastIndex - Len(H2Open)))

\* for each page that delivers a document: its heading pairs
PagePairs ==
    [p \in DOMAIN Pages |->
        IF FetchFailed(Pages[p]) THEN <<>> ELSE HeadingPairs(Pages[p].text.value, 1)]

\* the payload provides samples
PayloadSamples ==
    /\ Truthy(RunProblem)
    /\ Truthy(Prop(RunProblem, "samples"))
    /\ Prop(RunProblem, "samples").t = "array"

\* C32: without samples in the payload, the heading scan ends and returns one
\* sample for every pair of headings "input sample N", "output sample N" of
\* the document, in document order, the last output running to the end of the
\* document when no heading follows it.
C32_ScanFindsEveryPair ==
    (Returned /\ ~PayloadSamples) => run.info.value.samples = PagePairs[run.page]

---------------------------------------------------------------------------
(* src/utils.js: cleanString on its own, applied to a string and to its own *)
(* result                                                                    *)

\* the characters of the strings given to cleanString, and their greatest length
CleanChars == {"<", ">", "b", "/", " ", "\t", "\n"}
MaxLen == 5

Texts == UNION {[1..n -> CleanChars] : n \in 0..MaxLen}

\* the worker at rest, and a string at hand
CleanInit ==
    /\ sessionId = Null
    /\ awaitingJson = 0
    /\ awaitingFetch = EmptyBag
    /\ awaitingRest = EmptyBag
    /\ last = NoCall
    /\ initSeen = FALSE
    /\ earlier = {}
    /\ \E str \in Texts : run = [stage |-> "text", texts |-> <<str>>]

\* cleanString(str) of the string obtained last: of the string at hand, then
\* of its own result
Clean ==
    /\ run.stage = "text"
    /\ Len(run.texts) < 3
    /\ run' = [run EXCEPT !.texts = Append(@, cleanString(Str(@[Len(@)])).value)]
    /\ UNCHANGED <<workerVars, earlier>>

CleanSpec == CleanInit /\ [][Clean]_vars

\* the string at hand, and cleanString of it once it was applied
Raw == run.texts[1]
Cleaned == run.texts[2]
WasCleaned == Len(run.texts) >= 2

\* a tag starts at index i of s: "<" and then a letter, "/" or "!"
TagStartAt(s, i) == i < Len(s) /\ s[i] = "<" /\ s[i + 1] \in Letters \cup {"/", "!"}

\* C33: cleanString removes every tag, closed or not: its result has no "<"
\* that a letter, "/" or "!" follows.
C33_NoTagStartLeft ==
    WasCleaned => \A i \in DOMAIN Cleaned : ~TagStartAt(Cleaned, i)

\* index i of s lies in a tag: a tag starts at or before i and no ">" stands
\* between the character after its "<" and i
InTag(s, i) ==
    \E j \in 1..i : TagStartAt(s, j) /\ \A k \in (j + 2)..(i - 1) : s[k] # ">"

\* the indices of s outside every tag
Untagged(s) == {i \in DOMAIN s : ~InTag(s, i)}

\* the number of "<" in s
Opens(s) == Cardinality({i \in DOMAIN s : s[i] = "<"})

\* s has no tab, no two spaces in a row, no space at the start or the end of
\* a line, no three newlines in a row and no white space at its start or end
Tidy(s) ==
    /\ \A i \in DOMAIN s : s[i] # "\t"
    /\ \A i \in 1..(Len(s) - 1) : ~(s[i] = " " /\ s[i + 1] \in {" ", "\n"})
    /\ \A i \in 2..Len(s) : ~(s[i] = " " /\ s[i - 1] = "\n")
    /\ \A i \in 3..Len(s) : ~(s[i] = "\n" /\ s[i - 1] = "\n" /\ s[i - 2] = "\n")
    /\ s # <<>> => (s[1] \notin WhiteSpace /\ s[Len(s)] \notin WhiteSpace)

PlainLines(s) ==
    /\ s # <<>>
    /\ \A i \in DOMAIN s : s[i] \in {"b", "\n"}
    /\ s[1] = "b" /\ s[Len(s)] = "b"

WasRecleaned == Len(run.texts) = 3
Recleaned == run.texts[3]

\* C39: cleanString is idempotent: applied to its own result it returns that
\* result.
C39_Idempotent == WasRecleaned => Recleaned = Cleaned

---------------------------------------------------------------------------
(* The text formatProblemText makes of a record *)

\* the callback formatted the record of its document
Formatted == Returned /\ run.stage = "done"
RunText == run.outcome.value.text
RunInfo == run.info.value

\* a line of the text with its end
Line(x) == x \o <<"\n">>

\* the block of the k-th sample: its numbered heading, then the input and
\* the output, each under its caption between two fences
SampleBlock(k, sample) ==
    Line(<<"#", "#", " ", "YangLi", " ">> \o NaturalText(k))
    \o Line(<<"*", "*", "ShuRu", "*", "*">>)
    \o Line(<<"GraveAccent", "GraveAccent", "GraveAccent">>)
    \o Line(sample.input)
    \o Line(<<"GraveAccent", "GraveAccent", "GraveAccent">>)
    \o Line(<<"*", "*", "ShuChu", "*", "*">>)
    \o Line(<<"GraveAccent", "GraveAccent", "GraveAccent">>)
    \o Line(sample.output)
    \o Line(<<"GraveAccent", "GraveAccent", "GraveAccent">>)

\* where the text names a sample block, and the k-th such place
BlockStarts == {i \in DOMAIN RunText : RunText[i] = "YangLi"}
BlockStart(k) == CHOOSE p \in BlockStarts : Cardinality({q \in BlockStarts : q <= p}) = k

\* C36: the text has exactly one block per sample of the record: n blocks for
\* n samples, numbered from 1 in the record's order, the k-th fencing the k-th
\* sample's input and its output apart, and no block for no sample.
C36_OneBlockPerSample ==
    Formatted =>
        /\ Cardinality(BlockStarts) = Len(RunInfo.samples)
        /\ \A k \in DOMAIN RunInfo.samples :
              LET block == SampleBlock(k, RunInfo.samples[k])
                  from == BlockStart(k) - 3
              IN  SubSeq(Line(RunText), from, from + Len(block) - 1) = block

\* a record with two samples was formatted
C36_Witness ==
    /\ Formatted
    /\ Len(RunInfo.samples) = 2
    /\ Cardinality(BlockStarts) = 2
    /\ BlockStart(1) < BlockStart(2)

\* a heading of the second level with the line under it, and the line or,
\* for an empty one, the sentinel
Titled(label, body) == Line(<<"#", "#", " ">> \o label) \o Line(body)
OrNone(x) == IF x = <<>> THEN <<"Wu">> ELSE x

\* the sample blocks from the k-th on, an empty line after each
RECURSIVE SampleBlocks(_, _)
SampleBlocks(samples, k) ==
    IF k > Len(samples) THEN <<>>
    ELSE SampleBlock(k, samples[k]) \o Line(<<>>) \o SampleBlocks(samples, k + 1)

\* the blocks of the text in their order, every line with its end
BlocksInOrder(id, url, info) ==
    Line(<<"#", " ">> \o id \o <<" ">> \o info.title)
    \o Line(<<>>)
    \o Line(<<"*", "*", "NanDu", "*", "*", ":", " ">> \o difficultyLabel(info.difficulty)
            \o <<" ", " ", "*", "*", "BiaoQian", "*", "*", ":", " ">>
            \o OrNone(JoinWith(info.tags, <<"DunHao">>)))
    \o Line(<<"*", "*", "TiMuLianJie", "*", "*", ":", " ">> \o url)
    \o Line(<<>>)
    \o Titled(LabelDescription, OrNone(info.description)) \o Line(<<>>)
    \o Titled(LabelInputFormat, OrNone(info.inputFormat)) \o Line(<<>>)
    \o Titled(LabelOutputFormat, OrNone(info.outputFormat)) \o Line(<<>>)
    \o SampleBlocks(info.samples, 1)
    \o (IF info.limit # <<>> THEN Titled(LabelHint, info.limit) ELSE <<>>)

\* C37: the text is the blocks in one fixed order: title line, difficulty and
\* tags line, link line, description, input format, output format, sample
\* blocks, constraints; an empty description, input format, output format or
\* tag list is rendered as the sentinel, and the constraints block is there
\* exactly when limit is not empty.
C37_BlocksInFixedOrder ==
    Formatted =>
        Line(RunText) = BlocksInOrder(run.id, LuoguProblemLocation(run.id), RunInfo)

\* a record with an empty input format, an empty output format, no tags and
\* an empty limit was formatted: the text ends with the output format's
\* sentinel
C37_Witness ==
    /\ Formatted
    /\ RunInfo.inputFormat = <<>> /\ RunInfo.outputFormat = <<>>
    /\ RunInfo.tags = <<>> /\ RunInfo.limit = <<>>
    /\ SubSeq(RunText, Len(RunText) - 1, Len(RunText)) = <<"Wu", "\n">>
    /\ \A i \in DOMAIN RunText : RunText[i] # "ShuoMing"

---------------------------------------------------------------------------
(* The dispatcher's session identifier *)

\* the body is an initialize envelope whose protocol version passes the
\* check: none offered, 1.0, or the server's
PassingInitialize(json) ==
    /\ IsInitialize(json)
    /\ LET params == Prop(json.value, "params")
           offered == IF IsNullish(params) THEN Undefined
                      ELSE Prop(params, "protocolVersion")
       IN  \/ ~Truthy(offered)
           \/ offered = Str(<<"1.0">>)
           \/ offered = Str(MCP_PROTOCOL_VERSION)

\* C38: the session identifier is written only by an initialize call that
\* passes the version check: a rejected initialize and every other call, one
\* that ends in an error included, leave it as it is, and once it is not
\* null no call makes it null again.
C38_SessionWrittenByInitializeOnly ==
    [][/\ sessionId' # sessionId
            => /\ last'.done
               /\ "contentType" \in DOMAIN last'
               /\ last'.json # Unread
               /\ PassingInitialize(last'.json)
               /\ sessionId' \in SessionIds
       /\ sessionId # Null => sessionId' # Null]_vars

\* with a session at hand, an initialize call was rejected for its version
C38_Witness ==
    /\ sessionId # Null
    /\ Enveloped
    /\ IsInitialize(last.json)
    /\ ~PassingInitialize(last.json)
    /\ HasError

---------------------------------------------------------------------------
(* The record's difficulty and its code *)

\* C40: in every record parseProblemHtml returns, difficulty is the
\* unknown-difficulty sentinel exactly when difficultyNum is null, and with a
\* difficultyNum that is not null, difficulty is the label of that code or
\* the code as text.
C40_SentinelIffNoCode ==
    Returned =>
        /\ (RunInfo.difficulty = Str(UnknownDifficulty)) <=> (RunInfo.difficultyNum = Null)
        /\ RunInfo.difficultyNum # Null
              => \/ /\ ToText(RunInfo.difficultyNum) \in DOMAIN difficultyMap
                    /\ RunInfo.difficulty
                         = Str(difficultyMap[ToText(RunInfo.difficultyNum)])
                 \/ RunInfo.difficulty = Str(ToText(RunInfo.difficultyNum))

====
